---- MODULE Spec2Model ----
(***************************************************************************)
(* Model of the dwv spatial geometry (dwv.image.Geometry): the origins     *)
(* list, the size, the lazily recomputed slice spacing, and the index /    *)
(* world / offset conversions; and of the layer group (LayerGroup) that    *)
(* keeps the layers of a view at the same position: the layer list, the    *)
(* position change listeners of the layers and the steps of                *)
(* updateLayersToPositionChange.                                           *)
(*                                                                         *)
(* Conventions of the model:                                               *)
(*  - JavaScript arrays are TLA+ sequences, so array position d is         *)
(*    sequence position d + 1 (size.get(2) is size[3]).                    *)
(*  - World coordinates and spacings are integers.  Where the source       *)
(*    divides by two (the half voxel of isInBounds) both sides of the      *)
(*    comparison are doubled; Math.round(n / d) is RoundDiv(n, d).         *)
(*  - A call that throws leaves the object as it was and is recorded       *)
(*    with last.threw = TRUE.                                              *)
(*  - null and undefined are the empty tuple <<>>.                         *)
(*  - The layers (ViewLayer, DrawLayer) and their view controllers are     *)
(*    the environment of the layer group: what their methods return is     *)
(*    chosen freely at each call, and the calls the group makes on them    *)
(*    are recorded in calls.                                               *)
(*  - A scale is counted in sixteenths (ScaleOne is the scale 1), a fit    *)
(*    scale is the fraction <<numerator, denominator>> of the division     *)
(*    that computes it, and the fit offset is kept doubled (the source     *)
(*    multiplies by -0.5).                                                 *)
(*                                                                         *)
(* The module also models the slice / frame player of the view controller  *)
(* (dwv.ViewController play, stop and the interval callback).              *)
(***************************************************************************)
EXTENDS Integers, Sequences, FiniteSets, TLC

\* ------------------------------------------------------------------ bounds
\* largest number of origins a geometry holds
MaxOrigins == 3
\* largest number of appendFrame calls in a run
MaxFrames == 1
\* largest coordinate of a probe point
MaxProbe == 10
\* largest number of layers a layer group holds
MaxLayers == 3
\* largest number of callbacks a listener list of the group holds
MaxHandlers == 2

VARIABLES
  origins,      \* var origins = [origin]
  size,         \* the Size values, [columns, rows, slices(, frames)]
  spacing,      \* the Spacing values, [column, row, slice]
  orientation,  \* the 3*3 orientation matrix, as three rows
  newOrigins,   \* flag to know if new origins were added
  nFrames,      \* number of appendFrame calls so far (bounds the run)
  last,         \* the last call: its name, argument, result
  layers,       \* #layers = []: per layer its class, id and origin
  listeners,    \* per layer, the 'positionchange' listeners of the group
  showCrosshair,     \* #showCrosshair = false
  currentPosition,   \* #currentPosition
  crosshair,    \* the position the crosshair divs are shown at, or <<>>
  pc,           \* "idle", or where updateLayersToPositionChange stands
  event,        \* the event updateLayersToPositionChange was called with
  li,           \* var i of the loop over the layers
  baseViewLayerOrigin0,  \* var baseViewLayerOrigin0 = null
  baseViewLayerOrigin,   \* var baseViewLayerOrigin = null
  calls,        \* the calls made on the layers by the current (last) pass,
                \* or the calls and events of the last scale / offset call
  invoked,      \* how often the handler was entered for the current pass
  containerDiv, \* #containerDiv: <<offsetWidth, offsetHeight>>
  scale,        \* #scale = {x: 1, y: 1, z: 1}
  baseScale,    \* #baseScale = {x: 1, y: 1, z: 1}
  groupOffset,  \* #offset = {x: 0, y: 0, z: 0}
  activeViewLayerIndex,  \* #activeViewLayerIndex = null
  activeDrawLayerIndex,  \* #activeDrawLayerIndex = null
  targetOrientation,     \* #targetOrientation
  handlers,     \* #listenerHandler: how often #updateCrosshairOnChange is
                \* in the list of 'offsetchange' and of 'zoomchange'
  groupCall,    \* the last call on the group: its name, argument, result
  playerID,     \* var playerID = null
  timers,       \* the intervals set and not cleared, with what they captured
  currentSlice, \* view.getCurrentPosition().k
  currentFrame, \* view.getCurrentFrame()
  wheelDeltaY,  \* var wheelDeltaY = 0, in hundredths
  wheelCall,    \* the last wheel event, the sum it made and what it did
  started,      \* this.started = false
  x0,           \* self.x0: <<>> while undefined, else <<x>>
  y0,           \* self.y0: <<>> while undefined, else <<y>>
  opacity,      \* the opacity of the active view layer, in 200ths
  toolCall      \* the last pointer event the Opacity tool handled

\* the state of a Geometry
geometryVars ==
  <<origins, size, spacing, orientation, newOrigins, nFrames, last>>

\* the layers of a LayerGroup, its crosshair and its handler
syncVars ==
  <<layers, listeners, showCrosshair, currentPosition, crosshair, pc, event,
    li, baseViewLayerOrigin0, baseViewLayerOrigin, calls, invoked>>

\* the container, scale, offset and target orientation of a LayerGroup
fieldVars ==
  <<containerDiv, scale, baseScale, groupOffset, targetOrientation,
    groupCall>>

\* the active layers of a LayerGroup
activeVars == <<activeViewLayerIndex, activeDrawLayerIndex>>

\* the state of a LayerGroup and of its handler
groupVars == <<syncVars, fieldVars, activeVars, handlers>>

\* the state of the player of a ViewController
playerVars == <<playerID, timers, currentSlice, currentFrame>>

\* the state of a ScrollWheel and of an Opacity tool
toolVars == <<wheelDeltaY, wheelCall, started, x0, y0, opacity, toolCall>>

vars == <<geometryVars, groupVars, playerVars, toolVars>>

\* ------------------------------------------------------------- arithmetic
Abs(x) == IF x < 0 THEN -x ELSE x

\* Math.round(n / d) for d > 0: the nearest integer, halves rounded up
RoundDiv(n, d) == (2 * n + d) \div (2 * d)

\* Math.floor(n / d) for d > 0
FloorDiv(n, d) == n \div d

RECURSIVE SeqSum(_)
SeqSum(s) == IF s = <<>> THEN 0 ELSE Head(s) + SeqSum(Tail(s))

\* Array.prototype.splice(index, 0, item) for 0 <= index <= length
Splice(s, index, item) ==
  SubSeq(s, 1, index) \o <<item>> \o SubSeq(s, index + 1, Len(s))

\* ---------------------------------------------------------------- matrices
getIdentityMat33 == << <<1, 0, 0>>, <<0, 1, 0>>, <<0, 0, 1>> >>

\* Matrix33.get(row, col), both counted from 0
MatGet(m, row, col) == m[row + 1][col + 1]

Det33(m) ==
    m[1][1] * (m[2][2] * m[3][3] - m[2][3] * m[3][2])
  - m[1][2] * (m[2][1] * m[3][3] - m[2][3] * m[3][1])
  + m[1][3] * (m[2][1] * m[3][2] - m[2][2] * m[3][1])

\* the cofactor of entry (r, c)
Cofactor(m, r, c) ==
  LET r1 == IF r = 1 THEN 2 ELSE 1
      r2 == IF r = 3 THEN 2 ELSE 3
      c1 == IF c = 1 THEN 2 ELSE 1
      c2 == IF c = 3 THEN 2 ELSE 3
      minor == m[r1][c1] * m[r2][c2] - m[r1][c2] * m[r2][c1]
  IN IF (r + c) % 2 = 0 THEN minor ELSE -minor

\* Matrix33.getInverse: adjugate over determinant (exact for the
\* orientations of the model, whose determinant is 1 or -1)
getInverse(m) ==
  LET det == Det33(m)
      e(r, c) == (Cofactor(m, c, r) * det) \div (det * det)
  IN << <<e(1, 1), e(1, 2), e(1, 3)>>,
        <<e(2, 1), e(2, 2), e(2, 3)>>,
        <<e(3, 1), e(3, 2), e(3, 3)>> >>

\* Matrix33.asOneAndZeros: snap the entries to 0, 1 or -1
asOneAndZeros(m) ==
  LET e(r, c) == IF m[r][c] > 0 THEN 1 ELSE IF m[r][c] < 0 THEN -1 ELSE 0
  IN << <<e(1, 1), e(1, 2), e(1, 3)>>,
        <<e(2, 1), e(2, 2), e(2, 3)>>,
        <<e(3, 1), e(3, 2), e(3, 3)>> >>

\* Matrix33.multiplyVector3D
multiplyVector3D(m, v) ==
  LET e(r) == m[r][1] * v[1] + m[r][2] * v[2] + m[r][3] * v[3]
  IN <<e(1), e(2), e(3)>>

\* Vector3D.dotProduct
dotProduct(a, b) == a[1] * b[1] + a[2] * b[2] + a[3] * b[3]

\* Point3D.minus
minus(p, q) == <<p[1] - q[1], p[2] - q[2], p[3] - q[3]>>

\* Point3D.getDistance, squared (the source only compares distances)
getDistance2(p, q) ==
  (p[1] - q[1]) * (p[1] - q[1]) + (p[2] - q[2]) * (p[2] - q[2])
    + (p[3] - q[3]) * (p[3] - q[3])

\* dwv.math.isSimilar(a, b, tol) on the integers of the model
isSimilar(a, b) == a = b

\* ------------------------------------------------------------------- Size
\* Size.getDimSize(dimension): the product of the sizes below the dimension
RECURSIVE getDimSize(_, _)
getDimSize(sz, dimension) ==
  IF dimension = 0 THEN 1
  ELSE sz[dimension] * getDimSize(sz, dimension - 1)

\* ---------------------------------------------------------------- Geometry
\* getOrigin as the first origin of the list
getOriginFirst == origins[1]

\* this.getOrigin
getOrigin == origins[Len(origins)]

\* the spacing loop keeping the spacing of the last pair instead of the
\* first
RECURSIVE sliceSpacingLoopLast(_, _, _, _)
sliceSpacingLoopLast(orientation2, i, sp, deltas) ==
  IF i > Len(origins) - 1
  THEN [threw |-> FALSE, value |-> sp, deltas |-> deltas]
  ELSE
    LET origin1 == multiplyVector3D(orientation2, origins[i])
        origin2 == multiplyVector3D(orientation2, origins[i + 1])
        diff == Abs(origin1[3] - origin2[3])
    IN IF diff = 0
       THEN [threw |-> TRUE, value |-> 0, deltas |-> deltas]
       ELSE sliceSpacingLoopLast(orientation2, i + 1, diff, deltas)

\* the spacing loop failing on a zero distance of the first pair only
RECURSIVE sliceSpacingLoopFirstPair(_, _, _, _)
sliceSpacingLoopFirstPair(orientation2, i, sp, deltas) ==
  IF i > Len(origins) - 1
  THEN [threw |-> FALSE, value |-> sp, deltas |-> deltas]
  ELSE
    LET origin1 == multiplyVector3D(orientation2, origins[i])
        origin2 == multiplyVector3D(orientation2, origins[i + 1])
        diff == Abs(origin1[3] - origin2[3])
    IN IF diff = 0 /\ sp = 0
       THEN [threw |-> TRUE, value |-> 0, deltas |-> deltas]
       ELSE IF sp = 0
       THEN sliceSpacingLoopFirstPair(orientation2, i + 1, diff, deltas)
       ELSE sliceSpacingLoopFirstPair(orientation2, i + 1, sp,
              IF ~isSimilar(sp, diff)
              THEN Append(deltas, Abs(sp - diff)) ELSE deltas)

\* the loop of getSliceGeometrySpacing, from pair i on; sp = 0 is null
RECURSIVE sliceSpacingLoop(_, _, _, _)
sliceSpacingLoop(orientation2, i, sp, deltas) ==
  IF i > Len(origins) - 1
  THEN [threw |-> FALSE, value |-> sp, deltas |-> deltas]
  ELSE
    LET origin1 == multiplyVector3D(orientation2, origins[i])
        origin2 == multiplyVector3D(orientation2, origins[i + 1])
        diff == Abs(origin1[3] - origin2[3])
    IN IF diff = 0
       THEN [threw |-> TRUE, value |-> 0, deltas |-> deltas]
       ELSE IF sp = 0
       THEN sliceSpacingLoop(orientation2, i + 1, diff, deltas)
       ELSE sliceSpacingLoop(orientation2, i + 1, sp,
              IF ~isSimilar(sp, diff)
              THEN Append(deltas, Abs(sp - diff)) ELSE deltas)

\* this.getSliceGeometrySpacing: [threw, value, warn]
getSliceGeometrySpacing ==
  IF Len(origins) = 1
  THEN [threw |-> FALSE, value |-> 1, warn |-> FALSE]
  ELSE
    LET r == sliceSpacingLoop(asOneAndZeros(getInverse(orientation)),
                              1, 0, <<>>)
        \* mean > 1e-4
        warn == Len(r.deltas) # 0
                /\ 10000 * SeqSum(r.deltas) > Len(r.deltas)
    IN [threw |-> r.threw, value |-> r.value, warn |-> ~r.threw /\ warn]

\* this.getSpacing throws (only the lazy update can)
getSpacingThrows == newOrigins /\ getSliceGeometrySpacing.threw

\* getSpacing returning the stored spacing without the lazy update
getSpacingStored == spacing

\* this.getSpacing: the spacing it returns and leaves stored
getSpacing ==
  IF newOrigins
  THEN [spacing EXCEPT ![3] = getSliceGeometrySpacing.value]
  ELSE spacing

\* the scan keeping the last of the equally near origins (dist <= minDist)
RECURSIVE closestLoopLast(_, _, _, _)
closestLoopLast(point, i, minDist, closestSliceIndex) ==
  IF i >= Len(origins) THEN closestSliceIndex
  ELSE
    LET dist == getDistance2(point, origins[i + 1])
    IN IF dist <= minDist
       THEN closestLoopLast(point, i + 1, dist, i)
       ELSE closestLoopLast(point, i + 1, minDist, closestSliceIndex)

\* the scan of getSliceIndex from list position i on (positions from 0)
RECURSIVE closestLoop(_, _, _, _)
closestLoop(point, i, minDist, closestSliceIndex) ==
  IF i >= Len(origins) THEN closestSliceIndex
  ELSE
    LET dist == getDistance2(point, origins[i + 1])
    IN IF dist < minDist
       THEN closestLoop(point, i + 1, dist, i)
       ELSE closestLoop(point, i + 1, minDist, closestSliceIndex)

\* the base plane vector getSliceIndex reads from the orientation
getNormal ==
  <<MatGet(orientation, 2, 0), MatGet(orientation, 2, 1),
    MatGet(orientation, 2, 2)>>

\* getSliceIndex with the codirectional side getting the higher index
\* (dotProd > 0)
getSliceIndexPositive(point) ==
  LET closestSliceIndex ==
        closestLoop(point, 0, getDistance2(point, origins[1]), 0)
      dotProd == dotProduct(getNormal,
                            minus(point, origins[closestSliceIndex + 1]))
  IN IF dotProd > 0 THEN closestSliceIndex + 1 ELSE closestSliceIndex

\* this.getSliceIndex
getSliceIndex(point) ==
  LET closestSliceIndex ==
        closestLoop(point, 0, getDistance2(point, origins[1]), 0)
      closestOrigin == origins[closestSliceIndex + 1]
      pointDir == minus(point, closestOrigin)
      dotProd == dotProduct(getNormal, pointDir)
  IN IF dotProd < 0 THEN closestSliceIndex + 1 ELSE closestSliceIndex

\* this.appendOrigin: the origins list after the call
appendOriginOrigins(origin, index) == Splice(origins, index, origin)

\* this.appendOrigin: the size after the call
appendOriginSize == [size EXCEPT ![3] = size[3] + 1]

\* this.appendFrame: the size after the call
appendFrameSize == [size EXCEPT ![3] = size[3] + 1]

\* Geometry.prototype.getRealSize, from the spacing sp getSpacing returns;
\* only the first three values are read by isInBounds
getRealSize(sp) == [i \in 1..3 |-> size[i] * sp[i]]

\* Point3D.isInBounds(min, max), on doubled coordinates
isInBounds3D(point2, min2, max2) ==
  \A d \in 1..3 : point2[d] >= min2[d] /\ point2[d] <= max2[d]

\* Geometry.prototype.isInBounds throws 'Incompatible point and size number
\* of dimension'
isInBoundsMismatch(point) == Len(point) > 3 /\ Len(size) # Len(point)

\* Geometry.prototype.isInBounds throws
isInBoundsThrows(point) == getSpacingThrows \/ isInBoundsMismatch(point)

\* isInBounds without the half voxel (min at the origin)
isInBoundsNoPadding(origin, sp, point) ==
  LET min2 == [d \in 1..3 |-> 2 * origin[d]]
      realSize == getRealSize(sp)
      max2 == [d \in 1..3 |-> min2[d] + 2 * realSize[d]]
      point2 == [d \in 1..3 |-> 2 * point[d]]
      inBounds == isInBounds3D(point2, min2, max2)
  IN IF Len(point) > 3
     THEN inBounds /\ \A i \in 4..Len(point) :
                         point[i] >= 0 /\ point[i] < size[i]
     ELSE inBounds

\* the body of Geometry.prototype.isInBounds, after
\* var origin = this.getOrigin(); var spacing = this.getSpacing();
isInBoundsBody(origin, sp, point) ==
  LET min2 == [d \in 1..3 |-> 2 * origin[d] - sp[d]]
      realSize == getRealSize(sp)
      max2 == [d \in 1..3 |-> min2[d] + 2 * realSize[d]]
      point2 == [d \in 1..3 |-> 2 * point[d]]
      inBounds == isInBounds3D(point2, min2, max2)
  IN IF Len(point) > 3
     THEN inBounds /\ \A i \in 4..Len(point) :
                         point[i] >= 0 /\ point[i] < size[i]
     ELSE inBounds

\* Geometry.prototype.isInBounds
isInBounds(point) == isInBoundsBody(getOrigin, getSpacing, point)

\* flipK leaving the index as it is
flipKNone(sz, k) == k

\* flipK(size, k)
flipK(sz, k) == (sz[3] - 1) - k

\* the body of Geometry.prototype.indexToWorld, after
\* var origin = this.getOrigin(); var spacing = this.getSpacing();
indexToWorldBody(origin, sp, index) ==
  LET k == flipK(size, index[3])
  IN [d \in 1..Len(index) |->
       IF d = 1 THEN origin[1] + index[1] * sp[1]
       ELSE IF d = 2 THEN origin[2] + index[2] * sp[2]
       ELSE IF d = 3 THEN origin[3] + k * sp[3]
       ELSE index[d]]

\* Geometry.prototype.indexToWorld
indexToWorld(index) == indexToWorldBody(getOrigin, getSpacing, index)

\* worldToIndex without the flip of the slice index
worldToIndexNoFlip(origin, sp, point) ==
  [d \in 1..Len(point) |->
       IF d = 1 THEN RoundDiv(point[1] - origin[1], sp[1])
       ELSE IF d = 2 THEN RoundDiv(point[2] - origin[2], sp[2])
       ELSE IF d = 3 THEN RoundDiv(point[3] - origin[3], sp[3])
       ELSE point[d]]

\* the body of Geometry.prototype.worldToIndex, after
\* var origin = this.getOrigin(); var spacing = this.getSpacing();
worldToIndexBody(origin, sp, point) ==
  [d \in 1..Len(point) |->
       IF d = 1 THEN RoundDiv(point[1] - origin[1], sp[1])
       ELSE IF d = 2 THEN RoundDiv(point[2] - origin[2], sp[2])
       ELSE IF d = 3
       THEN flipK(size, RoundDiv(point[3] - origin[3], sp[3]))
       ELSE point[d]]

\* Geometry.prototype.worldToIndex
worldToIndex(point) == worldToIndexBody(getOrigin, getSpacing, point)

\* indexToOffset over the first three dimensions only
indexToOffset3D(index) ==
  index[1] + index[2] * size[1] + index[3] * (size[1] * size[2])

\* the loop of indexToOffset from dimension i on (dimensions from 0)
RECURSIVE indexToOffsetLoop(_, _, _)
indexToOffsetLoop(index, i, offset) ==
  IF i >= Len(index) THEN offset
  ELSE indexToOffsetLoop(index, i + 1,
         offset + index[i + 1] * getDimSize(size, i))

\* Geometry.prototype.indexToOffset
indexToOffset(index) == indexToOffsetLoop(index, 0, 0)

\* offsetToIndex leaving the remainder of the row in the column value
offsetToIndexNoRow(offset) ==
  LET sliceSize == getDimSize(size, 2)
      k == FloorDiv(offset, sliceSize)
  IN [d \in 1..Len(size) |->
       IF d = 1 THEN offset - k * sliceSize
       ELSE IF d = 3 THEN k ELSE 0]

\* the loop of offsetToIndex from dimension i down (dimensions from 0)
RECURSIVE offsetToIndexLoop(_, _, _)
offsetToIndexLoop(i, off, values) ==
  IF i <= 0 THEN [values EXCEPT ![1] = off]
  ELSE
    LET dimSize == getDimSize(size, i)
        v == FloorDiv(off, dimSize)
    IN offsetToIndexLoop(i - 1, off - v * dimSize,
                         [values EXCEPT ![i + 1] = v])

\* Geometry.prototype.offsetToIndex
offsetToIndex(offset) ==
  offsetToIndexLoop(Len(size) - 1, offset, [d \in 1..Len(size) |-> 0])

\* ------------------------------------------------------------------ inputs
\* the origins a geometry is built from: a stack along z
OriginSet == {<<1, 2, 0>>, <<1, 2, 4>>, <<1, 2, 8>>}

\* an orientation whose slice normal points down the z axis (a half turn
\* about the x axis)
HalfTurnMat33 == << <<1, 0, 0>>, <<0, 0 - 1, 0>>, <<0, 0, 0 - 1>> >>

\* the geometries handed to the constructor: orientation, size, spacing
InitGeometries ==
  { [orientation |-> getIdentityMat33, size |-> <<4, 4, 1, 1>>,
     spacing |-> <<1, 1, 1>>],
    [orientation |-> HalfTurnMat33, size |-> <<2, 3, 1, 2>>,
     spacing |-> <<2, 3, 2>>],
    [orientation |-> getIdentityMat33, size |-> <<2, 3, 1>>,
     spacing |-> <<2, 3, 2>>] }

ProbeCoords == (0 - 2)..MaxProbe

\* the indices inside a size sz, of the size's own number of dimensions
InBoundsIndices(sz) ==
  IF Len(sz) = 3
  THEN (0..(sz[1] - 1)) \X (0..(sz[2] - 1)) \X (0..(sz[3] - 1))
  ELSE (0..(sz[1] - 1)) \X (0..(sz[2] - 1)) \X (0..(sz[3] - 1))
         \X (0..(sz[4] - 1))

\* the index of the last voxel of a size
LastIndex(sz) == [d \in 1..Len(sz) |-> sz[d] - 1]

NoCall == [op |-> "new", arg |-> <<>>, res |-> <<>>, threw |-> FALSE]

Call(op, arg, res) == [op |-> op, arg |-> arg, res |-> res, threw |-> FALSE]

Throw(op, arg) == [op |-> op, arg |-> arg, res |-> <<>>, threw |-> TRUE]

Bool(b) == IF b THEN <<1>> ELSE <<0>>

\* the scale 1 of #scale = {x: 1, y: 1, z: 1}, in sixteenths
ScaleOne == 16

\* null as the value of an index or of a timer id
NullIndex == 0 - 1

\* ----------------------------------------------------------------- actions
\* new LayerGroup(containerDiv): the field initialisers
NewLayerGroup ==
  /\ layers = <<>>
  /\ listeners = <<>>
  /\ showCrosshair = FALSE
  /\ currentPosition = <<>>
  /\ crosshair = <<>>
  /\ pc = "idle"
  /\ event = <<>>
  /\ li = 0
  /\ baseViewLayerOrigin0 = <<>>
  /\ baseViewLayerOrigin = <<>>
  /\ calls = <<>>
  /\ invoked = 0
  /\ containerDiv = <<200, 100>>
  /\ scale = <<ScaleOne, ScaleOne, ScaleOne>>
  /\ baseScale = <<ScaleOne, ScaleOne, ScaleOne>>
  /\ groupOffset = <<0, 0, 0>>
  /\ activeViewLayerIndex = NullIndex
  /\ activeDrawLayerIndex = NullIndex
  /\ targetOrientation = <<>>
  /\ handlers = [offsetchange |-> 0, zoomchange |-> 0]
  /\ groupCall = NoCall

\* new dwv.ViewController(view): the player, and the position of the view
NewViewController ==
  /\ playerID = NullIndex
  /\ timers = {}
  /\ currentSlice = 0
  /\ currentFrame = 0

\* the wheel call record of a wheel that handled no event
NoWheel ==
  [deltaMode |-> 0, deltaY |-> 0, sum |-> 0, scrolled |-> FALSE,
   up |-> FALSE]

\* new dwv.tool.ScrollWheel(app)
NewScrollWheel ==
  /\ wheelDeltaY = 0
  /\ wheelCall = NoWheel

\* the opacity of a new view layer: 1, in 200ths
OpacityOne == 200

\* new dwv.tool.Opacity(app), on an app that shows a view layer
NewOpacity ==
  /\ started = FALSE
  /\ x0 = <<>>
  /\ y0 = <<>>
  /\ opacity = OpacityOne
  /\ toolCall = [type |-> "new", x |-> 0, y |-> 0]

\* new dwv.image.Geometry(origin, size, spacing, orientation)
Init ==
  \E origin \in OriginSet, g \in InitGeometries :
    /\ origins = <<origin>>
    /\ size = g.size
    /\ spacing = g.spacing
    /\ orientation = g.orientation
    /\ newOrigins = FALSE
    /\ nFrames = 0
    /\ last = NoCall
    /\ NewLayerGroup
    /\ NewViewController
    /\ NewScrollWheel
    /\ NewOpacity

\* geometry.appendOrigin(origin, index)
AppendOrigin ==
  \E origin \in OriginSet, index \in 0..Len(origins) :
    /\ Len(origins) < MaxOrigins
    /\ newOrigins' = TRUE
    /\ origins' = appendOriginOrigins(origin, index)
    /\ size' = appendOriginSize
    /\ last' = Call("appendOrigin", origin, <<index>>)
    /\ UNCHANGED <<spacing, orientation, nFrames>>
    /\ UNCHANGED <<groupVars, playerVars, toolVars>>

\* geometry.appendFrame()
AppendFrame ==
  /\ nFrames < MaxFrames
  /\ size' = appendFrameSize
  /\ nFrames' = nFrames + 1
  /\ last' = Call("appendFrame", <<>>, <<>>)
  /\ UNCHANGED <<origins, spacing, orientation, newOrigins>>
  /\ UNCHANGED <<groupVars, playerVars, toolVars>>

\* the lazy update every call of getSpacing starts with
SpacingUpdate ==
  /\ spacing' = getSpacing
  /\ newOrigins' = FALSE
  /\ UNCHANGED <<origins, size, orientation, nFrames>>
  /\ UNCHANGED <<groupVars, playerVars, toolVars>>

\* a call that only reads
ReadOnly ==
  /\ UNCHANGED <<origins, size, spacing, orientation, newOrigins, nFrames>>
  /\ UNCHANGED <<groupVars, playerVars, toolVars>>

\* geometry.getSpacing()
GetSpacing ==
  IF getSpacingThrows
  THEN last' = Throw("getSpacing", <<>>) /\ ReadOnly
  ELSE last' = Call("getSpacing", <<>>, getSpacing) /\ SpacingUpdate

\* geometry.getSliceGeometrySpacing()
GetSliceGeometrySpacing ==
  /\ last' = IF getSliceGeometrySpacing.threw
             THEN Throw("getSliceGeometrySpacing", <<>>)
             ELSE Call("getSliceGeometrySpacing", <<>>,
                       <<getSliceGeometrySpacing.value>>)
  /\ ReadOnly

\* geometry.getOrigin()
GetOrigin ==
  /\ last' = Call("getOrigin", <<>>, getOrigin)
  /\ ReadOnly

\* geometry.getSliceIndex(point)
GetSliceIndex ==
  \E point \in {<<1, 2, z>> : z \in {0 - 1, 2, 3, 9}} \cup {<<0, 0, 4>>} :
    /\ last' = Call("getSliceIndex", point, <<getSliceIndex(point)>>)
    /\ ReadOnly

\* geometry.isInBounds(point)
IsInBounds ==
  \E point \in {getOrigin, <<1, 2, MaxProbe>>,
                <<1, 2, 4, 0>>, <<1, 2, 4, 2>>} :
    IF getSpacingThrows
    THEN last' = Throw("isInBounds", point) /\ ReadOnly
    ELSE /\ last' = IF isInBoundsThrows(point)
                    THEN Throw("isInBounds", point)
                    ELSE Call("isInBounds", point, Bool(isInBounds(point)))
         /\ SpacingUpdate

\* geometry.indexToWorld(index)
IndexToWorld ==
  \E index \in {[d \in 1..Len(size) |-> 0], LastIndex(size)} :
    IF getSpacingThrows
    THEN last' = Throw("indexToWorld", index) /\ ReadOnly
    ELSE /\ last' = Call("indexToWorld", index, indexToWorld(index))
         /\ SpacingUpdate

\* geometry.worldToIndex(point)
WorldToIndex ==
  \E point \in {indexToWorld([d \in 1..Len(size) |-> 0]),
                indexToWorld(LastIndex(size)), <<1, 2, 6>>} :
    IF getSpacingThrows
    THEN last' = Throw("worldToIndex", point) /\ ReadOnly
    ELSE /\ last' = Call("worldToIndex", point, worldToIndex(point))
         /\ SpacingUpdate

\* geometry.indexToOffset(index)
IndexToOffset ==
  \E index \in {LastIndex(size), <<1, 1, 1, 0>>, <<1, 2, 0>>} :
    /\ last' = Call("indexToOffset", index, <<indexToOffset(index)>>)
    /\ ReadOnly

\* geometry.offsetToIndex(offset)
OffsetToIndex ==
  \E offset \in {0, 5, 21, getDimSize(size, Len(size)) - 1} :
    /\ last' = Call("offsetToIndex", <<offset>>, offsetToIndex(offset))
    /\ ReadOnly

\* ------------------------------------------------------------- layer group
\* the values of the position change events: [index, position]
EventValues ==
  { << <<0, 0, 0>>, <<1, 2, 0>> >>, << <<0, 0, 1>>, <<1, 2, 4>> >> }

\* the origin of the data of the layer added as number id
LayerOrigin0(id) == <<id, 2 * id, 0>>

\* vc.getOrigin(position), when it is defined: the origin of the slice at
\* the position
OriginAt(origin0, position) == <<origin0[1], origin0[2], position[3]>>

\* the record of one call the group made on the layer at list position l
LayerCall(l, op, arg, res) ==
  [layer |-> l, op |-> op, arg |-> arg, res |-> res]

\* this.#layers[i] instanceof ViewLayer (list positions from 0)
isViewLayer(i) == layers[i + 1].view

\* the listeners #bindViewLayer leaves on 'positionchange'
bindViewLayer == [update |-> 1, fire |-> 1]

\* ListenerHandler.add
addListener(n) == n + 1

\* ListenerHandler.remove
removeListener(n) == 0

\* the pass leaving the listeners of the layers attached
pauseListenersNone(ls) == ls

\* pause positionchange listeners
pauseListeners(ls) ==
  [k \in 1..Len(ls) |->
     IF isViewLayer(k - 1)
     THEN [update |-> removeListener(ls[k].update),
           fire |-> removeListener(ls[k].fire)]
     ELSE ls[k]]

\* the pass not attaching the listeners again
restartListenersNone(ls) == ls

\* re-start positionchange listeners
restartListeners(ls) ==
  [k \in 1..Len(ls) |->
     IF isViewLayer(k - 1)
     THEN [update |-> addListener(ls[k].update),
           fire |-> addListener(ls[k].fire)]
     ELSE ls[k]]

\* this.#layers[i].getId() === event.srclayerid
isSourceLayer(i) == layers[i + 1].id = event.srclayerid

\* the redraw forced whenever the offset was set
forceDrawOnOffset(hasSetPos, hasSetOffset) == hasSetOffset

\* force redraw if needed
forceDraw(hasSetPos, hasSetOffset) == ~hasSetPos /\ hasSetOffset

\* the loop over the layers never ending
loopEndedNever == FALSE

\* the loop over the layers has ended: not (i < this.#layers.length)
loopEnded == ~(li < Len(layers))

\* layerGroup.addViewLayer()
AddViewLayer ==
  /\ pc = "idle"
  /\ Len(layers) < MaxLayers
  /\ layers' = Append(layers, [view |-> TRUE, id |-> Len(layers),
                               origin0 |-> LayerOrigin0(Len(layers))])
  /\ listeners' = Append(listeners, bindViewLayer)
  /\ activeViewLayerIndex' = Len(layers)
  /\ UNCHANGED <<showCrosshair, currentPosition, crosshair, pc, event, li,
                 baseViewLayerOrigin0, baseViewLayerOrigin, calls, invoked>>
  /\ UNCHANGED <<fieldVars, activeDrawLayerIndex, handlers>>
  /\ UNCHANGED <<geometryVars, playerVars, toolVars>>

\* layerGroup.addDrawLayer()
AddDrawLayer ==
  /\ pc = "idle"
  /\ Len(layers) < MaxLayers
  /\ layers' = Append(layers, [view |-> FALSE, id |-> Len(layers),
                               origin0 |-> <<>>])
  /\ listeners' = Append(listeners, [update |-> 0, fire |-> 0])
  /\ activeDrawLayerIndex' = Len(layers)
  /\ UNCHANGED <<showCrosshair, currentPosition, crosshair, pc, event, li,
                 baseViewLayerOrigin0, baseViewLayerOrigin, calls, invoked>>
  /\ UNCHANGED <<fieldVars, activeViewLayerIndex, handlers>>
  /\ UNCHANGED <<geometryVars, playerVars, toolVars>>

\* empty() dropping the current position with the layers
EmptyForgetting ==
  /\ pc = "idle"
  /\ layers # <<>>
  /\ layers' = <<>>
  /\ listeners' = <<>>
  /\ activeViewLayerIndex' = NullIndex
  /\ activeDrawLayerIndex' = NullIndex
  /\ currentPosition' = <<>>
  /\ UNCHANGED <<showCrosshair, crosshair, pc, event, li,
                 baseViewLayerOrigin0, baseViewLayerOrigin, calls, invoked>>
  /\ UNCHANGED <<fieldVars, handlers>>
  /\ UNCHANGED <<geometryVars, playerVars, toolVars>>

\* layerGroup.empty()
Empty ==
  /\ pc = "idle"
  /\ layers # <<>>
  /\ layers' = <<>>
  /\ listeners' = <<>>
  /\ activeViewLayerIndex' = NullIndex
  /\ activeDrawLayerIndex' = NullIndex
  /\ UNCHANGED <<showCrosshair, currentPosition, crosshair, pc, event, li,
                 baseViewLayerOrigin0, baseViewLayerOrigin, calls, invoked>>
  /\ UNCHANGED <<fieldVars, handlers>>
  /\ UNCHANGED <<geometryVars, playerVars, toolVars>>

\* layerGroup.setShowCrosshair(flag), with the crosshair divs it shows or
\* removes
SetShowCrosshair ==
  \E flag \in BOOLEAN :
    /\ pc = "idle"
    /\ flag => handlers.offsetchange < MaxHandlers
    /\ showCrosshair' = flag
    /\ handlers' =
         IF flag
         THEN [offsetchange |-> addListener(handlers.offsetchange),
               zoomchange |-> addListener(handlers.zoomchange)]
         ELSE [offsetchange |-> removeListener(handlers.offsetchange),
               zoomchange |-> removeListener(handlers.zoomchange)]
    /\ crosshair' = IF flag /\ layers # <<>> THEN currentPosition ELSE <<>>
    /\ UNCHANGED <<layers, listeners, currentPosition, pc, event, li,
                   baseViewLayerOrigin0, baseViewLayerOrigin, calls, invoked>>
    /\ UNCHANGED <<fieldVars, activeVars>>
    /\ UNCHANGED <<geometryVars, playerVars, toolVars>>

\* layerGroup.setShowCrosshair(flag) called to change what is shown
ToggleCrosshair == SetShowCrosshair /\ showCrosshair' # showCrosshair

\* a view layer fires 'positionchange' and its listener
\* updateLayersToPositionChange starts: it pauses the listeners, stores the
\* position and shows the crosshair
PauseListeners ==
  \E a \in 1..Len(layers), value \in EventValues :
    /\ pc = "idle"
    /\ isViewLayer(a - 1)
    /\ listeners[a].update > 0
    /\ listeners' = pauseListeners(listeners)
    /\ event' = [value |-> value, srclayerid |-> layers[a].id]
    /\ currentPosition' = value[2]
    /\ crosshair' = IF showCrosshair THEN value[2] ELSE crosshair
    /\ calls' = IF showCrosshair
                THEN <<LayerCall(0, "showCrosshairDiv", value[2], TRUE)>>
                ELSE <<>>
    /\ baseViewLayerOrigin0' = <<>>
    /\ baseViewLayerOrigin' = <<>>
    /\ li' = 0
    /\ invoked' = 1
    /\ pc' = "loop"
    /\ UNCHANGED <<layers, showCrosshair>>
    /\ UNCHANGED <<fieldVars, activeVars, handlers>>
    /\ UNCHANGED <<geometryVars, playerVars, toolVars>>

\* one turn of the loop over the layers: base offset, position, redraw.
\* defined: vc.getOrigin(position) is defined; canSetPosition, offsetSet,
\* positionSet: what vc.canSetPosition, layer.setBaseOffset and
\* layer.setCurrentPosition return
updateLayer(defined, canSetPosition, offsetSet, positionSet) ==
    /\ pc = "loop"
    /\ li < Len(layers)
    /\ LET index == event.value[1]
           position == event.value[2]
           layer == layers[li + 1]
           origin0 == layer.origin0
           origin == IF defined THEN OriginAt(origin0, position) ELSE <<>>
           isBase == isViewLayer(li) /\ baseViewLayerOrigin = <<>>
           hasOffset == /\ isViewLayer(li)
                        /\ ~isBase
                        /\ canSetPosition
                        /\ origin # <<>>
           scrollOffset == minus(baseViewLayerOrigin0, origin0)
           planeOffset == minus(baseViewLayerOrigin, origin)
           hasSetOffset == hasOffset /\ offsetSet
           hasPosition == ~isSourceLayer(li)
           hasSetPos == hasPosition /\ positionSet
           hasDraw == forceDraw(hasSetPos, hasSetOffset)
       IN \* a draw layer has no view controller to ask
          /\ ~isViewLayer(li) => (defined /\ canSetPosition /\ offsetSet)
          \* what is not asked is not chosen
          /\ ~hasOffset => offsetSet
          /\ ~hasPosition => positionSet
          /\ (isBase \/ ~defined) => canSetPosition
          /\ baseViewLayerOrigin0' =
               IF isBase THEN origin0 ELSE baseViewLayerOrigin0
          /\ baseViewLayerOrigin' =
               IF isBase THEN origin ELSE baseViewLayerOrigin
          /\ calls' =
               calls
               \o (IF hasOffset
                   THEN <<LayerCall(li, "setBaseOffset",
                                    <<scrollOffset, planeOffset>>,
                                    hasSetOffset)>>
                   ELSE <<>>)
               \o (IF hasPosition
                   THEN <<LayerCall(li, "setCurrentPosition",
                                    <<position, index>>, hasSetPos)>>
                   ELSE <<>>)
               \o (IF hasDraw
                   THEN <<LayerCall(li, "draw", <<>>, TRUE)>>
                   ELSE <<>>)
          \* a view layer whose position was set fires 'positionchange' to
          \* the listeners it has
          /\ invoked' =
               IF hasSetPos /\ isViewLayer(li) /\ listeners[li + 1].update > 0
               THEN invoked + 1 ELSE invoked
    /\ li' = li + 1
    /\ UNCHANGED <<layers, listeners, showCrosshair, currentPosition,
                   crosshair, pc, event>>
    /\ UNCHANGED <<fieldVars, activeVars, handlers>>
    /\ UNCHANGED <<geometryVars, playerVars, toolVars>>

\* one turn of the loop, whatever the layer answers
UpdateLayer ==
  \E defined, canSetPosition, offsetSet, positionSet \in BOOLEAN :
    updateLayer(defined, canSetPosition, offsetSet, positionSet)

\* one turn of the loop on a layer that has an origin at the position and
\* sets what it is asked to set
UpdateLayerSet == updateLayer(TRUE, TRUE, TRUE, TRUE)

\* the end of updateLayersToPositionChange: it re-starts the listeners and
\* returns
RestartListeners ==
  /\ pc = "loop"
  /\ loopEnded
  /\ listeners' = restartListeners(listeners)
  /\ pc' = "idle"
  /\ UNCHANGED <<layers, showCrosshair, currentPosition, crosshair, event,
                 li, baseViewLayerOrigin0, baseViewLayerOrigin, calls,
                 invoked>>
  /\ UNCHANGED <<fieldVars, activeVars, handlers>>
  /\ UNCHANGED <<geometryVars, playerVars, toolVars>>

\* a call the pass makes on the layer of the turn (getOrigin, setBaseOffset,
\* setCurrentPosition or draw) raises: the handler has no try, the error
\* leaves it at once and the listeners are not re-started
LayerRaises ==
  /\ pc = "loop"
  /\ ~loopEnded
  /\ pc' = "idle"
  /\ groupCall' = Throw("updateLayersToPositionChange", event.value)
  /\ UNCHANGED <<layers, listeners, showCrosshair, currentPosition,
                 crosshair, event, li, baseViewLayerOrigin0,
                 baseViewLayerOrigin, calls, invoked>>
  /\ UNCHANGED <<containerDiv, scale, baseScale, groupOffset,
                 targetOrientation, activeVars, handlers>>
  /\ UNCHANGED <<geometryVars, playerVars, toolVars>>

\* ------------------------------------------------------- scale and offset
\* largest scale addScale goes to, in sixteenths
MaxScale == 32
\* largest offset addTranslation goes to
MaxOffset == 8

\* the scales, zoom centers, offsets and translations the group is called
\* with; a scale step is given as the fraction 1 + scaleStep
ScaleSet == {<<2 * ScaleOne, 2 * ScaleOne, 2 * ScaleOne>>}

CenterSet == {<<>>, <<1, 2, 0>>}

OffsetSet == {<<8, 0, 0>>}

TranslationSet == {<<8, 0, 0>>, <<0 - 8, 0, 0>>}

FactorSet == {<<2, 1>>, <<1, 4>>}

\* the calls of a loop over this.#layers that calls op(arg) on each layer,
\* in the order of the loop
layerCalls(op, arg) ==
  [l \in 1..Len(layers) |-> LayerCall(l - 1, op, arg, TRUE)]

\* #showCrosshairDiv(position): where the crosshair is after the call; the
\* call removes the crosshair and, without a first layer, raises
showCrosshairDiv(position) == IF layers # <<>> THEN position ELSE <<>>

\* a listener of the event type raises: #showCrosshairDiv without a layer
fireEventThrows(type) == handlers[type] > 0 /\ layers = <<>>

\* #fireEvent(event): the event, then the calls of #updateCrosshairOnChange,
\* one for each time it is in the list of the event type, up to one that
\* raises
fireEvent(type, value) ==
  <<LayerCall(NullIndex, "fireEvent", <<type, value>>, TRUE)>>
    \o [h \in 1..(IF fireEventThrows(type) THEN 1 ELSE handlers[type]) |->
          LayerCall(0, "showCrosshairDiv", currentPosition, layers # <<>>)]

\* the value of the 'zoomchange' event: the scale, then the center if any
zoomchangeValue(newScale, center) == newScale \o center

\* setScale firing the event before it applies the scale to the layers
setScaleCallsFireFirst(newScale, center) ==
  fireEvent("zoomchange", zoomchangeValue(newScale, center))
    \o layerCalls("setScale", <<newScale, center>>)

\* the calls and events of setScale(newScale, center), in their order
setScaleCalls(newScale, center) ==
  layerCalls("setScale", <<newScale, center>>)
    \o fireEvent("zoomchange", zoomchangeValue(newScale, center))

\* the calls and events of setOffset(newOffset), in their order
setOffsetCalls(newOffset) ==
  layerCalls("setOffset", newOffset) \o fireEvent("offsetchange", newOffset)

\* the crosshair after an event of the type was fired
crosshairAfter(type) ==
  IF handlers[type] > 0 THEN showCrosshairDiv(currentPosition) ELSE crosshair

\* the body of setScale(newScale, center), run by the call op(arg) that
\* returns res
setScale(op, arg, res, newScale, center) ==
  /\ scale' = newScale
  /\ calls' = setScaleCalls(newScale, center)
  /\ crosshair' = crosshairAfter("zoomchange")
  /\ groupCall' = IF fireEventThrows("zoomchange")
                  THEN Throw(op, arg) ELSE Call(op, arg, res)

\* the body of setOffset(newOffset), run by the call op(arg)
setOffset(op, arg, newOffset) ==
  /\ groupOffset' = newOffset
  /\ calls' = setOffsetCalls(newOffset)
  /\ crosshair' = crosshairAfter("offsetchange")
  /\ groupCall' = IF fireEventThrows("offsetchange")
                  THEN Throw(op, arg) ELSE Call(op, arg, <<>>)

\* what no scale, offset or fit call of the group touches
TransformFrame ==
  /\ UNCHANGED <<layers, listeners, showCrosshair, currentPosition, pc,
                 event, li, baseViewLayerOrigin0, baseViewLayerOrigin,
                 invoked>>
  /\ UNCHANGED <<containerDiv, targetOrientation, activeVars, handlers>>
  /\ UNCHANGED <<geometryVars, playerVars, toolVars>>

\* layerGroup.setScale(newScale, center)
SetScale(newScale, center) ==
  /\ pc = "idle"
  /\ setScale("setScale", <<newScale, center>>, <<>>, newScale, center)
  /\ UNCHANGED <<baseScale, groupOffset>>
  /\ TransformFrame

\* the new scale of addScale: this.#scale times (1 + scaleStep), the factor
\* being the fraction f
addScale(s, f) == [i \in 1..3 |-> (s[i] * f[1]) \div f[2]]

\* layerGroup.addScale(scaleStep, center), for the steps whose scale is a
\* number of sixteenths
AddScale(f, center) ==
  /\ pc = "idle"
  /\ \A i \in 1..3 :
       /\ (Abs(scale[i]) * f[1]) % f[2] = 0
       /\ Abs(scale[i]) * f[1] <= MaxScale * f[2]
  /\ setScale("addScale", <<f, center>>, <<>>, addScale(scale, f), center)
  /\ UNCHANGED <<baseScale, groupOffset>>
  /\ TransformFrame

\* flipScaleZ negating every component of the base scale
flipScaleZAll(b) == <<0 - b[1], 0 - b[2], 0 - b[3]>>

\* the base scale after this.#baseScale.z *= -1
flipScaleZ(b) == <<b[1], b[2], 0 - b[3]>>

\* layerGroup.flipScaleZ()
FlipScaleZ ==
  /\ pc = "idle"
  /\ baseScale' = flipScaleZ(baseScale)
  /\ setScale("flipScaleZ", <<>>, flipScaleZ(baseScale),
              flipScaleZ(baseScale), <<>>)
  /\ UNCHANGED groupOffset
  /\ TransformFrame

\* layerGroup.setOffset(newOffset)
SetOffset(newOffset) ==
  /\ pc = "idle"
  /\ setOffset("setOffset", newOffset, newOffset)
  /\ UNCHANGED <<scale, baseScale>>
  /\ TransformFrame

\* layerGroup.addTranslation(translation)
AddTranslation(translation) ==
  /\ pc = "idle"
  /\ \A i \in 1..3 : Abs(groupOffset[i] - translation[i]) <= MaxOffset
  /\ setOffset("addTranslation", translation,
               minus(groupOffset, translation))
  /\ UNCHANGED <<scale, baseScale>>
  /\ TransformFrame

\* layerGroup.reset(): setScale(baseScale), then setOffset({0, 0, 0}) if
\* setScale returned
Reset ==
  /\ pc = "idle"
  /\ scale' = baseScale
  /\ crosshair' = crosshairAfter("zoomchange")
  /\ IF fireEventThrows("zoomchange")
     THEN /\ calls' = setScaleCalls(baseScale, <<>>)
          /\ groupCall' = Throw("reset", <<>>)
          /\ UNCHANGED groupOffset
     ELSE /\ calls' = setScaleCalls(baseScale, <<>>)
                        \o setOffsetCalls(<<0, 0, 0>>)
          /\ groupCall' = IF fireEventThrows("offsetchange")
                          THEN Throw("reset", <<>>)
                          ELSE Call("reset", <<>>, <<>>)
          /\ groupOffset' = <<0, 0, 0>>
  /\ UNCHANGED baseScale
  /\ TransformFrame

\* ---------------------------------------------------------------- fitting
\* the sizes the container div is laid out with: <<offsetWidth,
\* offsetHeight>>
ContainerSizes == {<<200, 100>>, <<0, 100>>, <<100, 0>>, <<0, 0>>}

\* the fit scales setFitScale is called with, next to the calculated one
FitScaleSet == {<<1, 2>>, <<1, 3>>}

\* ViewLayer.getImageWorldSize() of the layer added as number id: {x, y}
getImageWorldSize(id) ==
  IF id % 3 = 0 THEN <<100, 100>>
  ELSE IF id % 3 = 1 THEN <<50, 200>>
  ELSE <<100, 50>>

\* the loop of getMaxSize from layer j on (list positions from 0)
RECURSIVE getMaxSizeLoop(_, _)
getMaxSizeLoop(j, maxSize) ==
  IF j >= Len(layers) THEN maxSize
  ELSE IF isViewLayer(j)
  THEN LET sz == getImageWorldSize(layers[j + 1].id)
       IN getMaxSizeLoop(j + 1,
            <<IF sz[1] > maxSize[1] THEN sz[1] ELSE maxSize[1],
              IF sz[2] > maxSize[2] THEN sz[2] ELSE maxSize[2]>>)
  ELSE getMaxSizeLoop(j + 1, maxSize)

\* layerGroup.getMaxSize(): {x, y}, or undefined
getMaxSize ==
  LET maxSize == getMaxSizeLoop(0, <<0, 0>>)
  IN IF maxSize[1] = 0 /\ maxSize[2] = 0 THEN <<>> ELSE maxSize

\* calculateFitScale throws 'Cannot fit to zero sized container.'
calculateFitScaleThrows == containerDiv[1] = 0 /\ containerDiv[2] = 0

\* Math.min of two fractions with positive denominators
minFraction(a, b) == IF a[1] * b[2] <= b[1] * a[2] THEN a ELSE b

\* the fit scale as the width ratio alone
calculateFitScaleWidth ==
  IF getMaxSize = <<>> THEN <<>>
  ELSE <<containerDiv[1], getMaxSize[1]>>

\* layerGroup.calculateFitScale(), when it does not throw: a fraction, or
\* undefined
calculateFitScale ==
  IF getMaxSize = <<>> THEN <<>>
  ELSE minFraction(<<containerDiv[1], getMaxSize[1]>>,
                   <<containerDiv[2], getMaxSize[2]>>)

\* the fit offset leaving the data at the corner of the container
fitOffsetCorner(containerSize, maxSize, scaleIn) == <<0, 0>>

\* the fit offset of setFitScale, doubled:
\* -0.5 * (containerSize - Math.floor(maxSize * scaleIn)) on x and y
fitOffset(containerSize, maxSize, scaleIn) ==
  <<0 - (containerSize[1] - FloorDiv(maxSize[1] * scaleIn[1], scaleIn[2])),
    0 - (containerSize[2] - FloorDiv(maxSize[2] * scaleIn[1], scaleIn[2]))>>

\* the page lays the container div out with another size
Resize ==
  \E containerSize \in ContainerSizes :
    /\ pc = "idle"
    /\ containerSize # containerDiv
    /\ containerDiv' = containerSize
    /\ UNCHANGED <<syncVars, scale, baseScale, groupOffset,
                   targetOrientation, groupCall, activeVars, handlers>>
    /\ UNCHANGED <<geometryVars, playerVars, toolVars>>

\* layerGroup.calculateFitScale()
CalculateFitScale ==
  /\ pc = "idle"
  /\ groupCall' = IF calculateFitScaleThrows
                  THEN Throw("calculateFitScale", <<>>)
                  ELSE Call("calculateFitScale", <<>>, calculateFitScale)
  /\ UNCHANGED <<syncVars, containerDiv, scale, baseScale, groupOffset,
                 targetOrientation, activeVars, handlers>>
  /\ UNCHANGED <<geometryVars, playerVars, toolVars>>

\* layerGroup.setFitScale(scaleIn)
SetFitScale(scaleIn) ==
  /\ pc = "idle"
  /\ IF getMaxSize = <<>>
     THEN /\ groupCall' = Call("setFitScale", scaleIn, <<>>)
          /\ UNCHANGED <<calls, crosshair>>
     ELSE LET offsetIn == fitOffset(containerDiv, getMaxSize, scaleIn)
          IN /\ groupCall' = Call("setFitScale", scaleIn, offsetIn)
             /\ calls' =
                  layerCalls("fitToContainer",
                             <<scaleIn, containerDiv, offsetIn>>)
                  \o (IF showCrosshair
                      THEN <<LayerCall(0, "showCrosshairDiv",
                                       currentPosition, TRUE)>>
                      ELSE <<>>)
             /\ crosshair' = IF showCrosshair
                             THEN showCrosshairDiv(currentPosition)
                             ELSE crosshair
  /\ UNCHANGED <<scale, baseScale, groupOffset>>
  /\ TransformFrame

\* ----------------------------------------------------------- active layers
\* the data indices setActive...ByDataIndex is called with
DataIndexSet == {0, 1, 5}

\* this.#layers[i].getDataIndex() (list positions from 0): two layers added
\* one after the other show the same data
getDataIndex(i) == layers[i + 1].id \div 2

\* the first layer of the class, or of any class if anyLayer, with the data
\* index; the active index active if there is none
firstByDataIndex(view, anyLayer, index, active) ==
  LET found == {i \in 0..(Len(layers) - 1) :
                  /\ anyLayer \/ isViewLayer(i) = view
                  /\ getDataIndex(i) = index}
  IN IF found = {} THEN active
     ELSE CHOOSE i \in found : \A j \in found : i <= j

\* setActiveViewLayerByDataIndex without the test of the layer's class
setActiveViewLayerByDataIndexAnyLayer(index) ==
  firstByDataIndex(TRUE, TRUE, index, activeViewLayerIndex)

\* the active view layer index after setActiveViewLayerByDataIndex(index)
setActiveViewLayerByDataIndex(index) ==
  firstByDataIndex(TRUE, FALSE, index, activeViewLayerIndex)

\* the active draw layer index after setActiveDrawLayerByDataIndex(index)
setActiveDrawLayerByDataIndex(index) ==
  firstByDataIndex(FALSE, FALSE, index, activeDrawLayerIndex)

\* layerGroup.setActiveViewLayerByDataIndex(index)
SetActiveViewLayerByDataIndex ==
  \E index \in DataIndexSet :
    /\ pc = "idle"
    /\ activeViewLayerIndex' = setActiveViewLayerByDataIndex(index)
    /\ groupCall' = Call("setActiveViewLayerByDataIndex", <<index>>, <<>>)
    /\ UNCHANGED <<syncVars, containerDiv, scale, baseScale, groupOffset,
                   targetOrientation, activeDrawLayerIndex, handlers>>
    /\ UNCHANGED <<geometryVars, playerVars, toolVars>>

\* layerGroup.setActiveDrawLayerByDataIndex(index)
SetActiveDrawLayerByDataIndex ==
  \E index \in DataIndexSet :
    /\ pc = "idle"
    /\ activeDrawLayerIndex' = setActiveDrawLayerByDataIndex(index)
    /\ groupCall' = Call("setActiveDrawLayerByDataIndex", <<index>>, <<>>)
    /\ UNCHANGED <<syncVars, containerDiv, scale, baseScale, groupOffset,
                   targetOrientation, activeViewLayerIndex, handlers>>
    /\ UNCHANGED <<geometryVars, playerVars, toolVars>>

\* ------------------------------------------------------------- orientation
\* Matrix33.multiply
multiply(a, b) ==
  LET e(r, c) == a[r][1] * b[1][c] + a[r][2] * b[2][c] + a[r][3] * b[3][c]
  IN << <<e(1, 1), e(1, 2), e(1, 3)>>,
        <<e(2, 1), e(2, 2), e(2, 3)>>,
        <<e(3, 1), e(3, 2), e(3, 3)>> >>

\* Matrix33.getAbs
getAbs(m) ==
  << <<Abs(m[1][1]), Abs(m[1][2]), Abs(m[1][3])>>,
     <<Abs(m[2][1]), Abs(m[2][2]), Abs(m[2][3])>>,
     <<Abs(m[3][1]), Abs(m[3][2]), Abs(m[3][3])>> >>

\* the matrix whose row r has the value s[r] in column p[r] and 0 elsewhere
AxisMat33(p, s) ==
  LET e(r, c) == IF p[r] = c THEN s[r] ELSE 0
  IN << <<e(1, 1), e(1, 2), e(1, 3)>>,
        <<e(2, 1), e(2, 2), e(2, 3)>>,
        <<e(3, 1), e(3, 2), e(3, 3)>> >>

\* the orders of the three axes
AxisOrders == {p \in [1..3 -> 1..3] : \A a, b \in 1..3 : p[a] = p[b] => a = b}

\* the image orientations: every order of the axes, each axis in either
\* direction, and axial data with the voxel sizes left in the matrix
ImageOrientations ==
  {AxisMat33(p, s) : p \in AxisOrders, s \in [1..3 -> {0 - 1, 1}]}
    \cup {AxisMat33(<<1, 2, 3>>, <<2, 0 - 3, 1>>)}

\* the target orientations of a layer group: axial, coronal, sagittal and
\* axial upside down
TargetOrientations ==
  { getIdentityMat33,
    << <<1, 0, 0>>, <<0, 0, 1>>, <<0, 0 - 1, 0>> >>,
    << <<0, 0, 0 - 1>>, <<1, 0, 0>>, <<0, 0 - 1, 0>> >>,
    HalfTurnMat33 }

\* getViewOrientation multiplying by the image orientation, not its inverse
getViewOrientationNoInverse(imageOrientation, target) ==
  getAbs(IF target # <<>>
         THEN multiply(asOneAndZeros(imageOrientation), target)
         ELSE getIdentityMat33)

\* getViewOrientation(imageOrientation, targetOrientation); target is <<>>
\* for typeof targetOrientation === 'undefined'
getViewOrientation(imageOrientation, target) ==
  getAbs(IF target # <<>>
         THEN multiply(getInverse(asOneAndZeros(imageOrientation)), target)
         ELSE getIdentityMat33)

\* layerGroup.setTargetOrientation(orientation)
SetTargetOrientation(target) ==
  /\ pc = "idle"
  /\ targetOrientation' = target
  /\ groupCall' = Call("setTargetOrientation", target, <<>>)
  /\ UNCHANGED <<syncVars, containerDiv, scale, baseScale, groupOffset,
                 activeVars, handlers>>
  /\ UNCHANGED <<geometryVars, playerVars, toolVars>>

\* getViewOrientation(imageOrientation, layerGroup.getTargetOrientation())
GetViewOrientation ==
  \E imageOrientation \in ImageOrientations :
    /\ groupCall' =
         Call("getViewOrientation", <<imageOrientation, targetOrientation>>,
              getViewOrientation(imageOrientation, targetOrientation))
    /\ UNCHANGED <<syncVars, containerDiv, scale, baseScale, groupOffset,
                   targetOrientation, activeVars, handlers>>
    /\ UNCHANGED <<geometryVars, playerVars, toolVars>>

\* ------------------------------------------------------------------ player
\* view.getImage().getGeometry().getSize().getNumberOfSlices()
getNumberOfSlices == size[3]

\* view.getImage().getNumberOfFrames()
getNumberOfFrames == IF Len(size) >= 4 THEN size[4] ELSE 1

\* this.isPlaying
isPlaying == playerID # NullIndex

\* setInterval: an id no outstanding interval has
setInterval ==
  CHOOSE n \in 1..(Cardinality(timers) + 1) : \A t \in timers : t.id # n

\* clearInterval(id)
clearInterval(id) == {t \in timers : t.id # id}

\* what is left unchanged by the player
PlayerFrame == UNCHANGED <<geometryVars, groupVars, toolVars>>

\* play setting an interval whether or not one is outstanding
PlayAlways ==
  /\ Cardinality(timers) < 2
  /\ playerID' = setInterval
  /\ timers' = timers \cup {[id |-> setInterval,
                             nSlices |-> getNumberOfSlices,
                             nFrames |-> getNumberOfFrames]}
  /\ UNCHANGED <<currentSlice, currentFrame>>
  /\ PlayerFrame

\* this.stop: the player after the call
Stop ==
  /\ IF playerID # NullIndex
     THEN /\ timers' = clearInterval(playerID)
          /\ playerID' = NullIndex
     ELSE UNCHANGED <<playerID, timers>>
  /\ UNCHANGED <<currentSlice, currentFrame>>
  /\ PlayerFrame

\* this.play
Play ==
  IF playerID = NullIndex
  THEN /\ playerID' = setInterval
       /\ timers' = timers \cup {[id |-> setInterval,
                                  nSlices |-> getNumberOfSlices,
                                  nFrames |-> getNumberOfFrames]}
       /\ UNCHANGED <<currentSlice, currentFrame>>
       /\ PlayerFrame
  ELSE Stop

\* the slice after the callback of the interval t ran: the next one, or the
\* first one when the next is out of bounds, if play() read more than one
\* slice
tickSlice(t) ==
  IF t.nSlices # 1
  THEN IF currentSlice + 1 < getNumberOfSlices THEN currentSlice + 1 ELSE 0
  ELSE currentSlice

\* the frame after the callback of the interval t ran: the next one, or the
\* first one when the next is out of bounds, if play() read one slice and more
\* than one frame
tickFrame(t) ==
  IF t.nSlices # 1
  THEN currentFrame
  ELSE IF t.nFrames # 1
  THEN IF currentFrame + 1 < getNumberOfFrames THEN currentFrame + 1 ELSE 0
  ELSE currentFrame

\* the callback of an outstanding interval runs
Tick ==
  \E t \in timers :
    /\ currentSlice' = tickSlice(t)
    /\ currentFrame' = tickFrame(t)
    /\ UNCHANGED <<playerID, timers>>
    /\ PlayerFrame

\* ------------------------------------------------- scroll wheel and tools
\* the wheel events handled: pixel events (deltaMode 0) and line events
\* (deltaMode 1), deltaY in hundredths
WheelEvents ==
  {[deltaMode |-> 0, deltaY |-> d] : d \in {0 - 5300, 0 - 2000, 2000, 5300}}
    \cup {[deltaMode |-> 1, deltaY |-> d] : d \in {0 - 600, 0 - 300, 300, 600}}

\* var scrollMin = 52, or 5.99 if event.deltaMode === 1, in hundredths
scrollMin(deltaMode) == IF deltaMode = 1 THEN 599 ELSE 5200

\* Size.moreThanOne(dimension)
moreThanOne(dimension) ==
  Len(size) >= dimension + 1 /\ size[dimension + 1] > 1

\* Size.canScroll3D()
canScroll3D == moreThanOne(2)

\* the index after viewController.incrementScrollIndex() or
\* incrementIndex(3) from the index k of n: the next one if it is in bounds
incrementIndex(k, n) == IF k + 1 < n THEN k + 1 ELSE k

\* the index after viewController.decrementScrollIndex() or
\* decrementIndex(3) from the index k: the previous one if it is in bounds
decrementIndex(k) == IF k - 1 >= 0 THEN k - 1 ELSE k

\* scrollWheel.wheel(event)
Wheel ==
  \E e \in WheelEvents :
    LET sum == wheelDeltaY + e.deltaY
        scrolls == ~(Abs(sum) < scrollMin(e.deltaMode))
        up == e.deltaY < 0
    IN /\ wheelDeltaY' = IF scrolls THEN 0 ELSE sum
       /\ wheelCall' = [deltaMode |-> e.deltaMode, deltaY |-> e.deltaY,
                        sum |-> sum, scrolled |-> scrolls, up |-> up]
       /\ IF scrolls /\ canScroll3D
          THEN /\ currentSlice' =
                    IF up
                    THEN incrementIndex(currentSlice, getNumberOfSlices)
                    ELSE decrementIndex(currentSlice)
               /\ UNCHANGED currentFrame
          ELSE IF scrolls /\ moreThanOne(3)
          THEN /\ currentFrame' =
                    IF up
                    THEN incrementIndex(currentFrame, getNumberOfFrames)
                    ELSE decrementIndex(currentFrame)
               /\ UNCHANGED currentSlice
          ELSE UNCHANGED <<currentSlice, currentFrame>>
       /\ UNCHANGED <<playerID, timers>>
       /\ UNCHANGED <<started, x0, y0, opacity, toolCall>>
       /\ UNCHANGED <<geometryVars, groupVars>>

\* the positions of the pointer events
PointerX == {0, 15, 16, 100}
PointerY == {7}

\* what the Opacity tool leaves unchanged
OpacityFrame ==
  /\ UNCHANGED <<wheelDeltaY, wheelCall>>
  /\ UNCHANGED <<geometryVars, groupVars, playerVars>>

\* viewLayer.setOpacity(alpha): the opacity kept, between 0 and 1
setOpacity(alpha) ==
  IF alpha < 0 THEN 0 ELSE IF alpha > OpacityOne THEN OpacityOne ELSE alpha

\* the test seeing the moves to the right only
xMoveSigned(diffX) == diffX > 15

\* var xMove = (Math.abs(diffX) > 15)
xMove(diffX) == Abs(diffX) > 15

\* the body of this.mousedown, run for the event of the type
mousedown(type, x, y) ==
  /\ started' = TRUE
  /\ x0' = <<x>>
  /\ y0' = <<y>>
  /\ toolCall' = [type |-> type, x |-> x, y |-> y]
  /\ UNCHANGED opacity
  /\ OpacityFrame

\* the body of this.mousemove, run for the event of the type
mousemove(type, x, y) ==
  /\ toolCall' = [type |-> type, x |-> x, y |-> y]
  /\ IF ~started
     THEN UNCHANGED <<x0, opacity>>
     ELSE LET diffX == x - x0[1]
          IN IF xMove(diffX)
             THEN /\ opacity' = setOpacity(opacity + diffX)
                  /\ x0' = <<x>>
             ELSE UNCHANGED <<x0, opacity>>
  /\ UNCHANGED <<started, y0>>
  /\ OpacityFrame

\* the body of this.mouseup, run for the event of the type
mouseup(type, x, y) ==
  /\ toolCall' = [type |-> type, x |-> x, y |-> y]
  /\ started' = IF started THEN FALSE ELSE started
  /\ UNCHANGED <<x0, y0, opacity>>
  /\ OpacityFrame

\* opacity.mousedown(event)
MouseDown == \E x \in PointerX, y \in PointerY : mousedown("mousedown", x, y)

\* opacity.mousemove(event)
MouseMove == \E x \in PointerX, y \in PointerY : mousemove("mousemove", x, y)

\* opacity.mouseup(event)
MouseUp == \E x \in PointerX, y \in PointerY : mouseup("mouseup", x, y)

\* opacity.mouseout(event)
MouseOut == \E x \in PointerX, y \in PointerY : mouseup("mouseout", x, y)

\* opacity.touchstart(event)
TouchStart ==
  \E x \in PointerX, y \in PointerY : mousedown("touchstart", x, y)

\* opacity.touchmove(event)
TouchMove ==
  \E x \in PointerX, y \in PointerY : mousemove("touchmove", x, y)

\* opacity.touchend(event)
TouchEnd == \E x \in PointerX, y \in PointerY : mouseup("touchend", x, y)

\* ---------------------------------------------------------- specifications
\* the geometry under construction: origins, size, lazy spacing
NextGeometry ==
  \/ AppendOrigin
  \/ AppendFrame
  \/ GetSpacing
  \/ GetSliceGeometrySpacing
  \/ GetOrigin

SpecGeometry == Init /\ [][NextGeometry]_vars

\* index <-> world conversion
NextWorld ==
  \/ AppendOrigin
  \/ AppendFrame
  \/ GetSpacing
  \/ IndexToWorld
  \/ WorldToIndex

SpecWorld == Init /\ [][NextWorld]_vars

\* bounds check
NextBounds ==
  \/ AppendOrigin
  \/ AppendFrame
  \/ GetSpacing
  \/ IsInBounds

SpecBounds == Init /\ [][NextBounds]_vars

\* slice lookup
NextSlice ==
  \/ AppendOrigin
  \/ AppendFrame
  \/ GetSpacing
  \/ GetSliceIndex

SpecSlice == Init /\ [][NextSlice]_vars

\* index <-> offset conversion
NextOffset ==
  \/ AppendOrigin
  \/ AppendFrame
  \/ GetSpacing
  \/ IndexToOffset
  \/ OffsetToIndex

SpecOffset == Init /\ [][NextOffset]_vars

\* a layer group, on its own
InitLayerGroup ==
  /\ Init
  /\ origins = << <<1, 2, 0>> >>
  /\ size = <<2, 3, 1>>

\* the layer list and the position propagation
NextLayerGroup ==
  \/ AddViewLayer
  \/ AddDrawLayer
  \/ Empty
  \/ ToggleCrosshair
  \/ PauseListeners
  \/ UpdateLayer
  \/ RestartListeners

SpecLayerGroup == InitLayerGroup /\ [][NextLayerGroup]_vars

\* the layers being added and the position propagation
NextPropagation ==
  \/ AddViewLayer
  \/ AddDrawLayer
  \/ SetShowCrosshair
  \/ PauseListeners
  \/ UpdateLayer
  \/ RestartListeners

\* the handler is synchronous code: once started, each of its steps is taken
SpecLayerGroupLive ==
  /\ InitLayerGroup
  /\ [][NextPropagation]_vars
  /\ WF_vars(UpdateLayer)
  /\ WF_vars(RestartListeners)

\* the position propagation with layers whose calls may raise
NextRaise ==
  \/ AddViewLayer
  \/ AddDrawLayer
  \/ ToggleCrosshair
  \/ PauseListeners
  \/ UpdateLayerSet
  \/ LayerRaises
  \/ RestartListeners

SpecRaise == InitLayerGroup /\ [][NextRaise]_vars

\* the scale and the offset of a group of view layers
NextScale ==
  \/ AddViewLayer
  \/ SetShowCrosshair
  \/ \E newScale \in ScaleSet, center \in CenterSet :
       SetScale(newScale, center)
  \/ \E newOffset \in OffsetSet : SetOffset(newOffset)
  \/ \E f \in FactorSet, center \in CenterSet : AddScale(f, center)
  \/ \E translation \in TranslationSet : AddTranslation(translation)
  \/ Reset
  \/ FlipScaleZ

SpecScale == InitLayerGroup /\ [][NextScale]_vars

\* the scale calculateFitScale gives when the group is asked for it, or
\* none
FitScaleNow ==
  IF calculateFitScaleThrows \/ calculateFitScale = <<>>
  THEN {} ELSE {calculateFitScale}

\* a group fitted to its container
NextFit ==
  \/ AddViewLayer
  \/ AddDrawLayer
  \/ SetShowCrosshair
  \/ Resize
  \/ CalculateFitScale
  \/ \E scaleIn \in FitScaleSet \cup FitScaleNow : SetFitScale(scaleIn)

SpecFit == InitLayerGroup /\ [][NextFit]_vars

\* the active layers of a group
NextActive ==
  \/ AddViewLayer
  \/ AddDrawLayer
  \/ Empty
  \/ SetActiveViewLayerByDataIndex
  \/ SetActiveDrawLayerByDataIndex

SpecActive == InitLayerGroup /\ [][NextActive]_vars

\* a group that has had no scale, offset or fit call yet
Untransformed == groupCall = NoCall \/ groupCall.op = "setTargetOrientation"

\* every call that changes a group, in the order of a session: the layers
\* are added while the group is untransformed, the first layer moves to
\* another slice while it is alone, and the group is then scaled,
\* translated, fitted, flipped, reset and emptied in any order. The layers
\* set what they are asked to set
NextGroupState ==
  \/ (AddViewLayer /\ Untransformed)
  \/ (AddDrawLayer /\ Untransformed)
  \/ Empty
  \/ ToggleCrosshair
  \/ (PauseListeners /\ Len(layers) = 1 /\ currentPosition' = <<1, 2, 4>>)
  \/ UpdateLayerSet
  \/ RestartListeners
  \/ SetScale(<<2 * ScaleOne, 2 * ScaleOne, 2 * ScaleOne>>, <<>>)
  \/ SetOffset(<<8, 0, 0>>)
  \/ AddScale(<<2, 1>>, <<>>)
  \/ AddTranslation(<<8, 0, 0>>)
  \/ Reset
  \/ FlipScaleZ
  \/ SetFitScale(<<1, 2>>)
  \/ SetTargetOrientation(HalfTurnMat33)

SpecGroupState == InitLayerGroup /\ [][NextGroupState]_vars

\* the view orientation of the data shown in a group
NextOrientation ==
  \/ \E target \in TargetOrientations \cup {<<>>} :
       SetTargetOrientation(target)
  \/ GetViewOrientation

SpecOrientation == InitLayerGroup /\ [][NextOrientation]_vars

\* the player of a view controller, on data that slices are appended to
NextPlayer ==
  \/ AppendOrigin
  \/ Play
  \/ Stop
  \/ Tick

SpecPlayer == Init /\ [][NextPlayer]_vars

\* the scroll wheel, on data that slices are appended to before the first
\* wheel event
NextWheel ==
  \/ (AppendOrigin /\ wheelCall = NoWheel
        /\ origins' = Append(origins, <<1, 2, 4 * Len(origins)>>))
  \/ Wheel

SpecWheel == Init /\ [][NextWheel]_vars

\* the pointer events of the Opacity tool
NextOpacity ==
  \/ MouseDown
  \/ MouseMove
  \/ MouseUp
  \/ MouseOut
  \/ TouchStart
  \/ TouchMove
  \/ TouchEnd

SpecOpacity == InitLayerGroup /\ [][NextOpacity]_vars


\* ------------------------------------------------------------------ claims
\* the world points the conversions are probed with: lines through the
\* anchor origin along each axis and along the diagonal, and the same with
\* a fourth component
WorldProbes ==
  LET o == getOrigin
  IN {<<o[1] + t, o[2], o[3]>> : t \in ProbeCoords}
       \cup {<<o[1], o[2] + t, o[3]>> : t \in ProbeCoords}
       \cup {<<o[1], o[2], o[3] + t>> : t \in ProbeCoords}
       \cup {<<o[1] + t, o[2] - t, o[3] + t>> : t \in {0 - 1, 1, 3}}
       \cup {<<o[1], o[2], o[3] + t, f>> :
               t \in {0 - 2, 0}, f \in (0 - 1)..2}

\* the world points the slice lookup is probed with
SliceProbes ==
  {<<1, y, z>> : y \in {0, 2}, z \in ProbeCoords}
    \cup {<<x, 2, z>> : x \in {0 - 3, 4}, z \in {0 - 1, 2, 5, 8}}

\* C1: for every in-bounds index x of a geometry whose spacing can be
\* computed, worldToIndex(indexToWorld(x)) is x.
C1_WorldRoundTrip ==
  ~getSpacingThrows =>
    LET origin == getOrigin
        sp == getSpacing
    IN \A x \in InBoundsIndices(size) :
         worldToIndexBody(origin, sp, indexToWorldBody(origin, sp, x)) = x

\* C1 witness: worldToIndex was called on the world point of the first
\* voxel of a geometry of several slices and returned that voxel.
C1_Witness ==
  /\ last.op = "worldToIndex"
  /\ ~last.threw
  /\ Len(origins) >= 2
  /\ last.res = [d \in 1..Len(size) |-> 0]
  /\ last.arg = indexToWorld(last.res)
  /\ last.arg # getOrigin

\* C2: for every in-bounds index x of the size,
\* offsetToIndex(indexToOffset(x)) is x, in every dimension.
C2_OffsetRoundTrip ==
  \A x \in InBoundsIndices(size) : offsetToIndex(indexToOffset(x)) = x

\* C2 witness: offsetToIndex was called on the offset of the last voxel of
\* a size of several slices and frames, and returned that voxel.
C2_Witness ==
  /\ last.op = "offsetToIndex"
  /\ size[3] >= 2
  /\ Len(size) = 4 /\ size[4] >= 2
  /\ last.arg = <<indexToOffset(LastIndex(size))>>
  /\ last.res = LastIndex(size)

\* stride[0] = 1, stride[d] = stride[d - 1] * size[d - 1]
RECURSIVE Stride(_, _)
Stride(sz, d) == IF d = 0 THEN 1 ELSE Stride(sz, d - 1) * sz[d]

RECURSIVE StrideSum(_, _, _)
StrideSum(sz, x, d) ==
  IF d >= Len(x) THEN 0
  ELSE x[d + 1] * Stride(sz, d) + StrideSum(sz, x, d + 1)

\* C3: indexToOffset(index) is the sum of index[d] * stride[d]; for the
\* size (4,4,2,1) the index [1,1,1,0] has offset 21 and offset 21 has
\* index [1,1,1,0].
C3_OffsetIsStrideSum ==
  /\ \A x \in InBoundsIndices(size) :
       indexToOffset(x) = StrideSum(size, x, 0)
  /\ size = <<4, 4, 2, 1>> =>
       /\ indexToOffset(<<1, 1, 1, 0>>) = 21
       /\ offsetToIndex(21) = <<1, 1, 1, 0>>

\* C3 witness: indexToOffset([1,1,1,0]) was called on the size (4,4,2,1)
\* and returned 21.
C3_Witness ==
  /\ size = <<4, 4, 2, 1>>
  /\ last = Call("indexToOffset", <<1, 1, 1, 0>>, <<21>>)

\* C4: the slice count of the size equals the number of stored origins,
\* after any sequence of appendOrigin and appendFrame calls.
C4_SliceCountIsOriginCount == size[3] = Len(origins)

C6_IndexToWorld ==
  ~getSpacingThrows =>
    LET o == getOrigin
        sp == getSpacing
    IN \A index \in InBoundsIndices(size) :
         LET w == indexToWorldBody(o, sp, index)
         IN /\ Len(w) = Len(index)
            /\ w[1] = o[1] + index[1] * sp[1]
            /\ w[2] = o[2] + index[2] * sp[2]
            /\ w[3] = o[3] + ((size[3] - 1) - index[3]) * sp[3]
            /\ \A d \in 4..Len(index) : w[d] = index[d]

\* C6 witness: indexToWorld was called on the last voxel of a geometry with
\* several slices and frames.
C6_Witness ==
  /\ last.op = "indexToWorld"
  /\ ~last.threw
  /\ Len(origins) >= 2
  /\ Len(size) = 4 /\ size[4] >= 2
  /\ last.arg = LastIndex(size)
  /\ last.res[4] = size[4] - 1

\* the list position (from 0) of the origin nearest to a point, the lowest
\* one among equally near origins
Nearest(point) ==
  CHOOSE i \in 0..(Len(origins) - 1) :
    \A j \in 0..(Len(origins) - 1) :
      /\ getDistance2(point, origins[i + 1])
           <= getDistance2(point, origins[j + 1])
      /\ j < i => getDistance2(point, origins[j + 1])
                     > getDistance2(point, origins[i + 1])

\* the dot product of the slice normal read from the orientation with
\* (point - origin at list position i)
NormalDot(point, i) ==
  LET n == <<MatGet(orientation, 2, 0), MatGet(orientation, 2, 1),
             MatGet(orientation, 2, 2)>>
      o == origins[i + 1]
  IN n[1] * (point[1] - o[1]) + n[2] * (point[2] - o[2])
       + n[3] * (point[3] - o[3])

Normal ==
  <<MatGet(orientation, 2, 0), MatGet(orientation, 2, 1),
    MatGet(orientation, 2, 2)>>

\* the origins are an evenly spaced stack in the order the geometry
\* documents: each next origin lies one step further down the normal
EvenStack ==
  /\ Len(origins) >= 2
  /\ \E step \in 1..8 :
       \A i \in 1..(Len(origins) - 1) :
         \A d \in 1..3 :
           origins[i + 1][d] = origins[i][d] - step * Normal[d]

\* the probe p moved t along the positive normal
Moved(p, t) == [d \in 1..3 |-> p[d] + t * Normal[d]]

\* C8 as stated: on an evenly spaced, ordered stack getSliceIndex does not
\* decrease when the probe moves along the positive normal.
C8_NonDecreasing ==
  EvenStack =>
    \A p \in SliceProbes :
      LET at == getSliceIndex(p)
      IN \A t \in 1..4 : at <= getSliceIndex(Moved(p, t))

\* C8 as amended: on an evenly spaced, ordered stack getSliceIndex does not
\* increase when the probe moves along the positive normal.
C8_NonIncreasing ==
  EvenStack =>
    \A p \in SliceProbes :
      LET at == getSliceIndex(p)
      IN \A t \in 1..4 : at >= getSliceIndex(Moved(p, t))

\* C8 witness: getSliceIndex was called between two slices of an evenly
\* spaced stack of three and returned neither end of the stack.
C8_Witness ==
  /\ EvenStack
  /\ Len(origins) = 3
  /\ last.op = "getSliceIndex"
  /\ last.res = <<1>>
  /\ getSliceIndex(Moved(last.arg, 4)) < 1
  /\ getSliceIndex(Moved(last.arg, 0 - 4)) > 1

\* the bounds of the claim on doubled coordinates
C9_Expected(o, sp, point) ==
     /\ \A d \in 1..3 :
          /\ 2 * point[d] >= 2 * o[d] - sp[d]
          /\ 2 * point[d] <= 2 * o[d] - sp[d] + 2 * size[d] * sp[d]
     /\ \A d \in 4..Len(point) :
          d <= Len(size) /\ 0 <= point[d] /\ point[d] < size[d]

\* C9: isInBounds(point) is true exactly when the first three components
\* lie in [origin - spacing/2, origin - spacing/2 + size * spacing] and each
\* further component d in [0, size[d]); true at the origin, false one
\* spacing beyond the upper half-voxel boundary of the slices.
C9_IsInBounds ==
  ~getSpacingThrows =>
    LET o == getOrigin
        sp == getSpacing
    IN /\ \A p \in WorldProbes :
            /\ (~isInBoundsMismatch(p) /\ isInBoundsBody(o, sp, p))
                 <=> C9_Expected(o, sp, p)
            /\ 2 * p[3] >= 2 * o[3] - sp[3] + 2 * size[3] * sp[3] + 2 * sp[3]
                 => ~isInBoundsBody(o, sp, p)
       /\ isInBoundsBody(o, sp, o)

\* C9 witness: isInBounds was called on the origin of a geometry of several
\* slices and returned true.
C9_Witness ==
  /\ last.op = "isInBounds"
  /\ Len(origins) >= 2
  /\ last.arg = getOrigin
  /\ last.res = <<1>>

\* |z component of inverse(orientation) . (origin i+1 - origin i)|
PairSpacing(i) ==
  Abs(multiplyVector3D(getInverse(orientation),
                       minus(origins[i + 1], origins[i]))[3])

\* C10: getSliceGeometrySpacing() is 1 for a single origin, s for origins
\* at constant spacing s, and the first pair's spacing, without failing,
\* when the non-zero spacings differ.
C10_SliceGeometrySpacing ==
  LET r == getSliceGeometrySpacing
      pairs == 1..(Len(origins) - 1)
  IN /\ Len(origins) = 1 => ~r.threw /\ r.value = 1
     /\ Len(origins) >= 2 /\ (\A i \in pairs : PairSpacing(i) # 0) =>
          /\ ~r.threw
          /\ r.value = PairSpacing(1)
          /\ \A s \in 1..8 :
               (\A i \in pairs : PairSpacing(i) = s) => r.value = s
          /\ r.warn <=> \E i \in pairs : PairSpacing(i) # PairSpacing(1)
     /\ last.op = "getSliceGeometrySpacing" /\ ~last.threw =>
          last.res = <<r.value>>

\* C10 witness: getSliceGeometrySpacing was called on three origins whose
\* two spacings differ and returned the first.
C10_Witness ==
  /\ last.op = "getSliceGeometrySpacing"
  /\ ~last.threw
  /\ Len(origins) = 3
  /\ PairSpacing(1) # PairSpacing(2)
  /\ last.res = <<PairSpacing(1)>>

\* some two adjacent origins have zero distance along the slice direction
ZeroPair == \E i \in 1..(Len(origins) - 1) : PairSpacing(i) = 0

\* C11: when two adjacent origins have zero distance along the slice
\* direction, getSliceGeometrySpacing and getSpacing throw instead of
\* returning a spacing, and every such call made on these origins threw.
C11_ZeroSpacingFails ==
  ZeroPair =>
    /\ getSliceGeometrySpacing.threw
    /\ getSpacingThrows
    /\ last.op \in {"getSpacing", "getSliceGeometrySpacing"} => last.threw

\* C11 witness: getSpacing was called on three origins of which the first
\* two are apart and the last two coincide, and threw.
C11_Witness ==
  /\ last.op = "getSpacing"
  /\ last.threw
  /\ Len(origins) = 3
  /\ PairSpacing(1) # 0
  /\ PairSpacing(2) = 0

\* C12: a call of indexToOffset on an index of fewer dimensions than the
\* size fails; it never returns an offset.
C12_ShortIndexFails ==
  (last.op = "indexToOffset" /\ Len(last.arg) < Len(size)) => last.threw

\* C13: appendOrigin(origin, index) puts the origin at position index of
\* the list and sets the stale flag; a getSpacing that finds the flag set
\* returns the stored spacing with its slice component replaced by
\* getSliceGeometrySpacing() of the current origins, stores it and clears
\* the flag; a getSpacing that finds the flag cleared returns the stored
\* spacing as it is.
C13_LazySpacing ==
  [][ /\ last'.op = "appendOrigin" =>
           /\ origins' = Splice(origins, last'.res[1], last'.arg)
           /\ origins'[last'.res[1] + 1] = last'.arg
           /\ newOrigins'
      /\ (last'.op = "getSpacing" /\ ~last'.threw) =>
           /\ ~newOrigins'
           /\ spacing' = last'.res
           /\ origins' = origins
           /\ IF newOrigins
              THEN /\ ~getSliceGeometrySpacing.threw
                   /\ last'.res = <<spacing[1], spacing[2],
                                    getSliceGeometrySpacing.value>>
              ELSE last'.res = spacing
    ]_vars

\* C13 witness: getSpacing was called after two appendOrigin calls and
\* returned the spacing of the first pair of origins, which is not the
\* spacing the geometry was built with.
C13_Witness ==
  /\ last.op = "getSpacing"
  /\ ~last.threw
  /\ Len(origins) = 3
  /\ ~newOrigins
  /\ last.res = spacing
  /\ spacing[3] = PairSpacing(1)
  /\ spacing[3] = 4

\* C14: appendFrame() adds one to the frame count of the size and leaves
\* the column, row and slice counts and the origins list as they were.
C14_AppendFrame ==
  [][ nFrames' = nFrames + 1 =>
        /\ origins' = origins
        /\ size'[1] = size[1] /\ size'[2] = size[2] /\ size'[3] = size[3]
        /\ Len(size) >= 4 => size'[4] = size[4] + 1
    ]_vars

\* the calls of the pass with name op on the layer at list position l
CallsOn(l, op) ==
  {n \in 1..Len(calls) : calls[n].layer = l /\ calls[n].op = op}

\* the loop of the pass has gone over every layer
PassDone == pc = "loop" /\ li = Len(layers)

C16_ListenersPaused ==
  \A k \in 1..Len(layers) :
    isViewLayer(k - 1) =>
      /\ pc = "loop" => listeners[k].update = 0
      /\ pc = "idle" => listeners[k].update = bindViewLayer.update

\* C16 witness: a pass has returned on a group of two view layers
\* and a draw layer, whose listeners are attached once.
C16_Witness ==
  /\ pc = "idle"
  /\ invoked = 1
  /\ Len(layers) = 3
  /\ Cardinality({k \in 1..3 : isViewLayer(k - 1)}) = 2
  /\ currentPosition = <<1, 2, 4>>
  /\ calls # <<>>
  /\ \A k \in 1..3 : isViewLayer(k - 1) => listeners[k].update = 1

\* C17: the calls of a pass go over the layers in registration order, and
\* every setBaseOffset of the pass comes before every setCurrentPosition
\* and draw of the pass.
C17_OffsetsBeforeRedraws ==
  \A m, n \in 1..Len(calls) :
    m < n =>
      /\ calls[m].layer <= calls[n].layer
      /\ ~(/\ calls[m].op \in {"setCurrentPosition", "draw"}
           /\ calls[n].op = "setBaseOffset")

\* the first view layer of the group (list position from 0)
FirstViewLayer ==
  CHOOSE l \in 0..(Len(layers) - 1) :
    isViewLayer(l) /\ \A k \in 0..(l - 1) : ~isViewLayer(k)

\* C18: in a pass setBaseOffset is called on every view layer other than
\* the source layer and on no other layer, with the difference of the
\* first view layer's origin and the layer's origin: without position for
\* the scroll vector, at the position for the plane vector.
C18_OffsetToOthers ==
  PassDone =>
    \A l \in 0..(Len(layers) - 1) :
      /\ CallsOn(l, "setBaseOffset") # {} <=>
           (isViewLayer(l) /\ layers[l + 1].id # event.srclayerid)
      /\ \A n \in CallsOn(l, "setBaseOffset") :
           LET first == layers[FirstViewLayer + 1].origin0
               mine == layers[l + 1].origin0
               position == event.value[2]
           IN calls[n].arg =
                <<minus(first, mine),
                  minus(OriginAt(first, position), OriginAt(mine, position))>>

\* C19: in a pass draw is called on a layer exactly when setCurrentPosition
\* did not return true on it (or was not called) and setBaseOffset returned
\* true on it.
C19_ForcedDraw ==
  pc = "loop" =>
    \A l \in 0..(li - 1) :
      LET honored == \E n \in CallsOn(l, "setCurrentPosition") : calls[n].res
          adjusted == \E n \in CallsOn(l, "setBaseOffset") : calls[n].res
      IN /\ CallsOn(l, "draw") # {} <=> (~honored /\ adjusted)
         /\ Cardinality(CallsOn(l, "draw")) <= 1
         /\ honored => CallsOn(l, "draw") = {}

\* C19 witness: a pass over three view layers has forced a draw on the one
\* that was adjusted and did not set the position, and none on the one that
\* was adjusted and set it.
C19_Witness ==
  /\ PassDone
  /\ Len(layers) = 3
  /\ event.srclayerid = 0
  /\ \E n \in CallsOn(1, "setBaseOffset") : calls[n].res
  /\ \E n \in CallsOn(1, "setCurrentPosition") : ~calls[n].res
  /\ CallsOn(1, "draw") # {}
  /\ \E n \in CallsOn(2, "setBaseOffset") : calls[n].res
  /\ \E n \in CallsOn(2, "setCurrentPosition") : calls[n].res
  /\ CallsOn(2, "draw") = {}

\* C20: a pass that has started goes on to re-start the listeners and
\* return, whatever the layers answer; it returns only after its loop has
\* gone over every layer, with the listeners of every view layer attached.
C20_PassCompletes ==
  /\ (pc = "loop") ~> (pc = "idle")
  /\ [][ (pc = "loop" /\ pc' = "idle") =>
           /\ li = Len(layers)
           /\ \A l \in 0..(Len(layers) - 1) :
                layers[l + 1].id # event.srclayerid =>
                  CallsOn(l, "setCurrentPosition") # {}
           /\ \A k \in 1..Len(layers) :
                isViewLayer(k - 1) => listeners'[k].update = 1
       ]_vars

\* C20 witness: a pass over three layers has returned although no layer
\* set the position.
C20_Witness ==
  /\ pc = "idle"
  /\ invoked = 1
  /\ li = 3
  /\ Len(layers) = 3
  /\ \E n \in 1..Len(calls) : calls[n].op = "setCurrentPosition"
  /\ \A n \in 1..Len(calls) :
       calls[n].op = "setCurrentPosition" => ~calls[n].res
  /\ \A k \in 1..3 : isViewLayer(k - 1) => listeners[k].update = 1

\* the step is the group call op: every scale, offset and fit call records
\* itself and its calls, no other step writes either
IsGroupCall(op) ==
  /\ <<groupCall, calls>>' # <<groupCall, calls>>
  /\ groupCall'.op = op

\* the entries of the call list after the first n are the calls of the
\* crosshair listener
OnlyListenersAfter(cs, n) ==
  \A k \in (n + 1)..Len(cs) : cs[k].op = "showCrosshairDiv"

\* C21: setScale(newScale, center) stores newScale as the scale of the
\* group, calls setScale(newScale, center) on every layer in the order of
\* the layer list, and only then fires one 'zoomchange' whose value is the
\* scale followed by the center if there is one; setOffset(newOffset) does
\* the same with the offset and one 'offsetchange' carrying the offset. What
\* follows the event are the calls of its listeners.
C21_StoreApplyNotify ==
  [][ LET n == Len(layers)
          cs == calls'
      IN /\ IsGroupCall("setScale") =>
              LET newScale == groupCall'.arg[1]
                  center == groupCall'.arg[2]
              IN /\ scale' = newScale
                 /\ Len(cs) > n
                 /\ \A l \in 1..n :
                      /\ cs[l].layer = l - 1
                      /\ cs[l].op = "setScale"
                      /\ cs[l].arg = <<scale', center>>
                 /\ cs[n + 1].op = "fireEvent"
                 /\ cs[n + 1].arg[1] = "zoomchange"
                 /\ cs[n + 1].arg[2] =
                      IF center = <<>>
                      THEN <<newScale[1], newScale[2], newScale[3]>>
                      ELSE <<newScale[1], newScale[2], newScale[3],
                             center[1], center[2], center[3]>>
                 /\ OnlyListenersAfter(cs, n + 1)
         /\ IsGroupCall("setOffset") =>
              LET newOffset == groupCall'.arg
              IN /\ groupOffset' = newOffset
                 /\ Len(cs) > n
                 /\ \A l \in 1..n :
                      /\ cs[l].layer = l - 1
                      /\ cs[l].op = "setOffset"
                      /\ cs[l].arg = groupOffset'
                 /\ cs[n + 1].op = "fireEvent"
                 /\ cs[n + 1].arg[1] = "offsetchange"
                 /\ cs[n + 1].arg[2] =
                      <<newOffset[1], newOffset[2], newOffset[3]>>
                 /\ OnlyListenersAfter(cs, n + 1)
    ]_vars

\* C21 witness: setScale with a center has returned on a group of three
\* layers that shows the crosshair: three layer calls, then the event with
\* six numbers, then the redraw of the crosshair.
C21_Witness ==
  /\ groupCall.op = "setScale"
  /\ ~groupCall.threw
  /\ groupCall.arg[2] # <<>>
  /\ Len(layers) = 3
  /\ Len(calls) = 5
  /\ calls[3].op = "setScale"
  /\ calls[4].op = "fireEvent"
  /\ Len(calls[4].arg[2]) = 6
  /\ calls[5].op = "showCrosshairDiv"
  /\ scale = groupCall.arg[1]

\* C22: a calculateFitScale() call on a container whose width or height is
\* zero raises and returns no scale.
C22_ZeroAreaThrows ==
  [][ (/\ IsGroupCall("calculateFitScale")
       /\ (containerDiv[1] = 0 \/ containerDiv[2] = 0))
        => groupCall'.threw
    ]_vars

\* the world sizes of the view layers of the group
ViewLayerSizes ==
  {getImageWorldSize(layers[k].id) :
     k \in {l \in 1..Len(layers) : isViewLayer(l - 1)}}

\* the largest number of a non-empty finite set of numbers
MaxOf(S) == CHOOSE m \in S : \A x \in S : x <= m

\* C23: when calculateFitScale() does not raise, it returns undefined if the
\* group has no view layer; otherwise getMaxSize() is, on x and on y, the
\* largest world size among the view layers, and the result is the smaller
\* of width / maxSize.x and height / maxSize.y.
C23_FitScale ==
  /\ [](IF ViewLayerSizes = {}
        THEN getMaxSize = <<>> /\ calculateFitScale = <<>>
        ELSE LET mx == MaxOf({sz[1] : sz \in ViewLayerSizes})
                 my == MaxOf({sz[2] : sz \in ViewLayerSizes})
                 r == calculateFitScale
             IN /\ getMaxSize = <<mx, my>>
                /\ r[2] > 0
                /\ r[1] * mx <= containerDiv[1] * r[2]
                /\ r[1] * my <= containerDiv[2] * r[2]
                /\ \/ r[1] * mx = containerDiv[1] * r[2]
                   \/ r[1] * my = containerDiv[2] * r[2])
  /\ [][ (IsGroupCall("calculateFitScale") /\ ~groupCall'.threw)
           => groupCall'.res = calculateFitScale
       ]_vars

\* C23 witness: calculateFitScale has returned 100 / 200, the height ratio,
\* on a 200 x 100 container whose view layers are 100 x 100 and 50 x 200.
C23_Witness ==
  /\ groupCall = Call("calculateFitScale", <<>>, <<100, 200>>)
  /\ containerDiv = <<200, 100>>
  /\ Cardinality(ViewLayerSizes) = 2
  /\ getMaxSize = <<100, 200>>

\* C24: setFitScale(scale) on a group without view layer changes nothing;
\* otherwise it calls fitToContainer on every layer, in the order of the
\* list, with the scale, the container size and the offset
\* -(container - floor(maxSize * scale)) / 2 on x and y (recorded doubled).
\* For a 200 x 100 container and a largest size of 100 x 100 the fit scale
\* is 1 and its offset is -50 on x and 0 on y.
C24_FitOffset ==
  /\ [][ IsGroupCall("setFitScale") =>
           IF getMaxSize = <<>>
           THEN UNCHANGED <<syncVars, containerDiv, scale, baseScale,
                            groupOffset, targetOrientation, activeVars,
                            handlers>>
           ELSE LET s == groupCall'.arg
                    off == groupCall'.res
                    floored(i) == containerDiv[i] + off[i]
                IN /\ Len(off) = 2
                   /\ \A i \in 1..2 :
                        /\ floored(i) * s[2] <= getMaxSize[i] * s[1]
                        /\ getMaxSize[i] * s[1] < (floored(i) + 1) * s[2]
                   /\ Len(calls') >= Len(layers)
                   /\ \A l \in 1..Len(layers) :
                        /\ calls'[l].layer = l - 1
                        /\ calls'[l].op = "fitToContainer"
                        /\ calls'[l].arg = <<s, containerDiv, off>>
                   /\ OnlyListenersAfter(calls', Len(layers))
       ]_vars
  /\ []((containerDiv = <<200, 100>> /\ getMaxSize = <<100, 100>>) =>
          /\ calculateFitScale[1] = calculateFitScale[2]
          /\ fitOffset(containerDiv, getMaxSize, calculateFitScale)
               = <<0 - 100, 0>>)

\* C24 witness: setFitScale was called with the fit scale 1 of a 200 x 100
\* container holding 100 x 100 data, and every layer got the offset -50, 0.
C24_Witness ==
  /\ groupCall = Call("setFitScale", <<100, 100>>, <<0 - 100, 0>>)
  /\ containerDiv = <<200, 100>>
  /\ getMaxSize = <<100, 100>>
  /\ Len(layers) >= 2
  /\ Len(calls) >= Len(layers)
  /\ \A l \in 1..Len(layers) :
       /\ calls[l].op = "fitToContainer"
       /\ calls[l].arg = <<groupCall.arg, containerDiv, groupCall.res>>

\* C25: flipScaleZ() negates the z component of the base scale and leaves
\* its x and y components and the offset of the group as they are; it calls
\* setOffset on no layer and fires no 'offsetchange'. The base scale is
\* changed by nothing else, so that a second flip gives the first one back.
C25_FlipScaleZ ==
  /\ [][ IsGroupCall("flipScaleZ") =>
           /\ baseScale'[1] = baseScale[1]
           /\ baseScale'[2] = baseScale[2]
           /\ baseScale'[3] = 0 - baseScale[3]
           /\ groupOffset' = groupOffset
           /\ \A k \in 1..Len(calls') :
                /\ calls'[k].op # "setOffset"
                /\ calls'[k].op = "fireEvent" =>
                     calls'[k].arg[1] = "zoomchange"
       ]_vars
  /\ [][ baseScale' # baseScale => groupCall'.op = "flipScaleZ" ]_vars
  /\ [](baseScale \in {<<ScaleOne, ScaleOne, ScaleOne>>,
                       <<ScaleOne, ScaleOne, 0 - ScaleOne>>})

\* C25 witness: a flip has given back the base scale the group started
\* with, on a group with layers that has been translated.
C25_Witness ==
  /\ groupCall.op = "flipScaleZ"
  /\ ~groupCall.threw
  /\ baseScale = <<ScaleOne, ScaleOne, ScaleOne>>
  /\ scale = baseScale
  /\ groupOffset = <<8, 0, 0>>
  /\ Len(layers) = 2

\* the active index of the layers of a class: null when the group has no
\* layer of the class, else the list position of one of them
ActiveOk(active, view) ==
  IF \A l \in 1..Len(layers) : isViewLayer(l - 1) # view
  THEN active = NullIndex
  ELSE /\ active \in 0..(Len(layers) - 1)
       /\ isViewLayer(active) = view

\* C26: with addViewLayer, addDrawLayer, setActiveViewLayerByDataIndex,
\* setActiveDrawLayerByDataIndex and empty, the active view layer index is
\* null while the group has no view layer and is otherwise the list position
\* of a view layer of the group; the same holds of the active draw layer
\* index and the draw layers. A layer that is added is the active one of
\* its class right after.
C26_ActiveLayers ==
  /\ [](/\ ActiveOk(activeViewLayerIndex, TRUE)
        /\ ActiveOk(activeDrawLayerIndex, FALSE))
  /\ [][ Len(layers') = Len(layers) + 1 =>
           IF layers'[Len(layers')].view
           THEN activeViewLayerIndex' = Len(layers') - 1
           ELSE activeDrawLayerIndex' = Len(layers') - 1
       ]_vars

\* C26 witness: in a group of a draw layer followed by two view layers, all
\* of the same two data, setActiveViewLayerByDataIndex(0) has made the
\* first of the view layers active.
C26_Witness ==
  /\ Len(layers) = 3
  /\ ~isViewLayer(0)
  /\ isViewLayer(1)
  /\ isViewLayer(2)
  /\ groupCall = Call("setActiveViewLayerByDataIndex", <<0>>, <<>>)
  /\ activeViewLayerIndex = 1
  /\ activeDrawLayerIndex = 0

\* C27: the crosshair listener is on 'offsetchange' and on 'zoomchange'
\* exactly when the crosshair flag is true, and at most once on each; when
\* the flag is false there is no crosshair and neither setScale nor
\* setOffset would redraw one.
C27_CrosshairListeners ==
  /\ showCrosshair <=> handlers.offsetchange > 0
  /\ showCrosshair <=> handlers.zoomchange > 0
  /\ handlers.offsetchange <= 1
  /\ handlers.zoomchange <= 1
  /\ ~showCrosshair =>
       /\ crosshair = <<>>
       /\ \A k \in 1..Len(setScaleCalls(scale, <<>>)) :
            setScaleCalls(scale, <<>>)[k].op # "showCrosshairDiv"
       /\ \A k \in 1..Len(setOffsetCalls(groupOffset)) :
            setOffsetCalls(groupOffset)[k].op # "showCrosshairDiv"

\* the group calls that scale, translate, fit, flip or reset
TransformOps ==
  {"setScale", "setOffset", "addScale", "addTranslation", "reset",
   "flipScaleZ", "setFitScale"}

\* C28: the current position of a group changes only when a pass of
\* updateLayersToPositionChange starts, to the position of the event, and
\* its target orientation only in setTargetOrientation; setScale,
\* setOffset, addScale, addTranslation, reset, flipScaleZ, setFitScale,
\* addViewLayer, addDrawLayer, empty and setShowCrosshair leave both as they
\* are, and so does every call the pass makes on a layer.
C28_PositionAndOrientation ==
  [][ /\ currentPosition' # currentPosition =>
           /\ pc = "idle"
           /\ pc' = "loop"
           /\ currentPosition' = event'.value[2]
      /\ targetOrientation' # targetOrientation =>
           /\ groupCall'.op = "setTargetOrientation"
           /\ targetOrientation' = groupCall'.arg
      /\ (\/ pc' = "idle" /\ \E op \in TransformOps : IsGroupCall(op)
          \/ layers' # layers
          \/ showCrosshair' # showCrosshair
          \/ pc = "loop")
           => UNCHANGED <<currentPosition, targetOrientation>>
    ]_vars

\* C28 witness: a group whose position was set by a pass and whose target
\* orientation was set has since got two more layers and the crosshair and
\* been reset, and has both values still.
C28_Witness ==
  /\ currentPosition = <<1, 2, 4>>
  /\ targetOrientation = HalfTurnMat33
  /\ groupCall.op = "reset"
  /\ ~groupCall.threw
  /\ Len(layers) = 3
  /\ showCrosshair
  /\ pc = "idle"

\* C29: getViewOrientation(imageOrientation, targetOrientation) is the
\* identity when the target orientation is undefined; otherwise it is the
\* matrix of the absolute values of N * targetOrientation, where N is the
\* inverse of the simplified image orientation: N times that matrix, on
\* either side, is the identity.
C29_ViewOrientation ==
  groupCall.op = "getViewOrientation" =>
    LET image == groupCall.arg[1]
        target == groupCall.arg[2]
        simple == asOneAndZeros(image)
    IN IF target = <<>>
       THEN groupCall.res = getIdentityMat33
       ELSE \E n \in ImageOrientations :
              /\ multiply(simple, n) = getIdentityMat33
              /\ multiply(n, simple) = getIdentityMat33
              /\ \A r, c \in 1..3 :
                   groupCall.res[r][c] =
                     Abs(n[r][1] * target[1][c] + n[r][2] * target[2][c]
                           + n[r][3] * target[3][c])

\* C29 witness: the view orientation of data whose axes are in the order y,
\* z, x in an axial group is the inverse of that order, which differs from
\* the order itself.
C29_Witness ==
  /\ groupCall.op = "getViewOrientation"
  /\ groupCall.arg[1] = << <<0, 1, 0>>, <<0, 0, 1>>, <<1, 0, 0>> >>
  /\ groupCall.arg[2] = getIdentityMat33
  /\ groupCall.res = << <<0, 0, 1>>, <<1, 0, 0>>, <<0, 1, 0>> >>

\* C30: a view controller has at most one outstanding interval; isPlaying()
\* is true exactly while it has one, which is the one playerID names; a
\* play() or stop() of a playing controller clears the interval and sets no
\* other; the slice and the frame change only while an interval is
\* outstanding, so that no tick changes them after stop().
C30_OneTimer ==
  /\ [](/\ Cardinality(timers) <= 1
        /\ isPlaying <=> timers # {}
        /\ \A t \in timers : t.id = playerID)
  /\ [][ /\ (playerID # NullIndex /\ playerID' # playerID) =>
              /\ timers' = {}
              /\ playerID' = NullIndex
         /\ (currentSlice' # currentSlice \/ currentFrame' # currentFrame)
              => (isPlaying /\ timers # {})
       ]_vars

\* C30 witness: a controller that played three slices to the third one and
\* was stopped: no interval is left to tick.
C30_Witness ==
  /\ ~isPlaying
  /\ timers = {}
  /\ getNumberOfSlices = 3
  /\ currentSlice = 2

\* C31: no addScale call leaves a component of the scale of the group below
\* 0.1 in size (the scale is in sixteenths: 10 * scale >= 16).
C31_ScaleFloor ==
  [][ IsGroupCall("addScale") =>
        \A i \in 1..3 : 10 * Abs(scale'[i]) >= ScaleOne
    ]_vars

\* C32: in a pass with the crosshair enabled the crosshair is redrawn last:
\* while the pass is still going over the layers, with the listeners of the
\* view layers detached, no crosshair has been drawn yet.
C32_CrosshairLast ==
  (pc = "loop" /\ showCrosshair) =>
    \A n \in 1..Len(calls) : calls[n].op # "showCrosshairDiv"

\* C33: whenever no pass is running, be it that the last one returned or
\* that a call on a layer raised in it, every view layer has its
\* propagation listener attached.
C33_ReleasedOnFailure ==
  pc = "idle" =>
    \A k \in 1..Len(layers) : isViewLayer(k - 1) => listeners[k].update > 0

\* C34: in a pass, once the loop has gone past a view layer, the reference
\* origin without position is the origin of the first view layer of the
\* group, and the reference origin at the position is that layer's origin
\* at the position, or undefined if it has none there.
C34_ReferenceIsFirstViewLayer ==
  (pc = "loop" /\ \E l \in 0..(li - 1) : isViewLayer(l)) =>
    LET first == layers[FirstViewLayer + 1].origin0
    IN /\ baseViewLayerOrigin0 = first
       /\ baseViewLayerOrigin \in {<<>>, OriginAt(first, event.value[2])}

\* C35 as claimed: for every probe point getSliceIndex(point) is the list
\* position of an origin, from 0 to origins.length - 1.
C35_ValidIndex ==
  \A p \in SliceProbes : getSliceIndex(p) \in 0..(Len(origins) - 1)

\* C35: for every probe point getSliceIndex(point) is a position of the
\* slice layout, from 0 to origins.length, and it is origins.length, the
\* position after the last origin, exactly for the points that are nearest
\* to the last origin on the side that selects the next higher index.
C35_LayoutPosition ==
  \A p \in SliceProbes :
    /\ getSliceIndex(p) \in 0..Len(origins)
    /\ getSliceIndex(p) = Len(origins) <=>
         /\ Nearest(p) = Len(origins) - 1
         /\ NormalDot(p, Nearest(p)) < 0

\* C35 witness: getSliceIndex was called on a geometry of several origins
\* with a point beyond the last of them and returned origins.length.
C35_Witness ==
  /\ last.op = "getSliceIndex"
  /\ Len(origins) >= 2
  /\ last.res = <<Len(origins)>>
  /\ Nearest(last.arg) = Len(origins) - 1
  /\ last.arg # origins[Len(origins)]

\* C36: every probe point that isInBounds accepts is converted by
\* worldToIndex to an index inside the size on the first three axes.
C36_InBoundsIndex ==
  ~getSpacingThrows =>
    LET origin == getOrigin
        sp == getSpacing
    IN \A p \in {q \in WorldProbes : Len(q) = 3} :
         isInBoundsBody(origin, sp, p) =>
           \A d \in 1..3 :
             worldToIndexBody(origin, sp, p)[d] \in 0..(size[d] - 1)

\* a step that redraws the crosshair: setShowCrosshair(true), which adds the
\* listeners, or a pass or an event that calls #showCrosshairDiv
RedrawsCrosshair ==
  \/ handlers'.offsetchange > handlers.offsetchange
  \/ /\ calls' # calls
     /\ \E n \in 1..Len(calls') : calls'[n].op = "showCrosshairDiv"

\* C37: whenever the crosshair is redrawn (by setShowCrosshair(true), by an
\* 'offsetchange' or a 'zoomchange' while it is enabled, or in a propagation
\* pass), the group holds at least one layer and has a current position.
C37_RedrawHasLayerAndPosition ==
  [][ RedrawsCrosshair => (layers' # <<>> /\ currentPosition' # <<>>) ]_vars

\* the slice or frame after k of n: the next one when it is in bounds, the
\* first one otherwise
NextOrFirst(k, n) == IF k + 1 < n THEN k + 1 ELSE 0

\* C38: the current slice is in [0, numberOfSlices - 1], and the callback of
\* every outstanding interval moves the slice to the next one, or to the
\* first one from the last, when the volume has more than one slice, and
\* moves the frame the same way, not the slice, when the volume has exactly
\* one slice (which changes nothing when it also has one frame).
C38_TickAdvances ==
  /\ currentSlice \in 0..(getNumberOfSlices - 1)
  /\ \A t \in timers :
       IF getNumberOfSlices > 1
       THEN /\ tickSlice(t) = NextOrFirst(currentSlice, getNumberOfSlices)
            /\ tickFrame(t) = currentFrame
       ELSE /\ tickSlice(t) = currentSlice
            /\ tickFrame(t) = NextOrFirst(currentFrame, getNumberOfFrames)

\* C39: the wheel scrolls exactly when the accumulated deltaY reaches the
\* threshold of the event (52, or 5.99 for deltaMode 1) in absolute value,
\* the accumulator is 0 after a scroll and below the threshold after an event
\* that did not scroll, and the direction of a scroll agrees with the sign of
\* the accumulated value that triggered it.
C39_WheelDirection ==
  /\ wheelCall.scrolled <=>
       Abs(wheelCall.sum) >= scrollMin(wheelCall.deltaMode)
  /\ wheelCall.scrolled => wheelDeltaY = 0
  /\ Abs(wheelDeltaY) < scrollMin(wheelCall.deltaMode)
  /\ wheelCall.scrolled => (wheelCall.up <=> wheelCall.sum < 0)

\* the pointer event types that move, and those that end a drag
MoveTypes == {"mousemove", "touchmove"}
EndTypes == {"mouseup", "mouseout", "touchend"}

\* C40: a mousemove or touchmove received while the tool is not started
\* changes nothing; one received while it is started sets the opacity and
\* resets the start x to the x of the event when the horizontal distance to
\* the start x exceeds 15, and changes neither otherwise; mouseup, mouseout
\* and touchend leave the tool not started; the opacity changes in no other
\* step.
C40_OpacityDrag ==
  [][ LET type == toolCall'.type
          x == toolCall'.x
      IN /\ (type \in MoveTypes /\ ~started) =>
              UNCHANGED <<started, x0, y0, opacity>>
         /\ (type \in MoveTypes /\ started) =>
              /\ started'
              /\ IF Abs(x - x0[1]) > 15
                 THEN x0' = <<x>>
                 ELSE UNCHANGED <<x0, opacity>>
         /\ type \in EndTypes => ~started'
         /\ opacity' # opacity =>
              /\ started
              /\ type \in MoveTypes
              /\ Abs(x - x0[1]) > 15
    ]_vars

\* C40 witness: a touchmove of a started tool, 16 to the left of the start x,
\* lowered the opacity and became the new start x.
C40_Witness ==
  /\ started
  /\ toolCall.type = "touchmove"
  /\ toolCall.x = 0
  /\ x0 = <<0>>
  /\ opacity = OpacityOne - 16

====
